---- MODULE Spec2Model ----
(***************************************************************************)
(* The threaded sampler of src/apps/vision/roboflow/icm20948.py:           *)
(* ThreadedIMU (start / _read_loop / get_data / get_angles / available /   *)
(* stop) on top of the ICM20948 driver (initialize / read / close).        *)
(*                                                                         *)
(* One controller thread calls start() and stop() in any order, consumer   *)
(* threads call get_data() and get_angles(), and every successful start()  *)
(* creates one background thread running _read_loop.  Every statement that *)
(* another thread can observe is one step.  Bus I/O may fail at any time.  *)
(* A snapshot field holds the tag of the sample cycle that produced it;    *)
(* tag 0 is the all-zero default value (IMUAngles(), IMUSensorData()).     *)
(***************************************************************************)
EXTENDS Integers, Sequences, FiniteSets

\* Background threads that can exist at the same time.
MaxThreads == 2
\* Consumer threads calling the accessors.
NConsumers == 1
\* Distinct cycle tags of one background thread (reused cyclically).
NTags == 2
\* The filter model computes in fixed point: the float x is the integer
\* x * ONE, rounded down.
ONE == 4096
\* Calls of the filter update that are followed.
MaxUpdates == 3
\* Bus handles the driver may hold open at the same time.
MaxHandles == 2
\* Successful read() cycles that are followed with the full filter state.
MaxCycles == 2
\* Tolerance on the squared norm of the stored quaternion, in units of
\* 1 / (ONE * ONE).
NormEps == 65536

Threads == 1..MaxThreads
Consumers == 1..NConsumers

\* Identity of a lock holder; 0 is "unlocked".
ThreadId(t) == t
ConsumerId(c) == MaxThreads + c

VARIABLES
    running,          \* ThreadedIMU._running
    avail,            \* ThreadedIMU._available
    thread,           \* ThreadedIMU._thread: 0 is None, else the thread
    lock,             \* holder of ThreadedIMU._lock, 0 when free
    angles,           \* ThreadedIMU._angles (cycle tag)
    gyro,             \* ThreadedIMU._gyro
    accel,            \* ThreadedIMU._accel
    mag,              \* ThreadedIMU._mag
    imu_initialized,  \* ICM20948.initialized
    imu_bus,          \* ICM20948.bus: TRUE when it references an open handle
    imu_lock,         \* holder of ICM20948._lock, 0 when free
    tpc,              \* position of each background thread
    tres,             \* the tuple read() returned to the loop (cycle tag)
    failed,           \* history: the current cycle caught an I/O error
    cpc,              \* position of the controller thread
    lastOp,           \* history: outcome of the last completed start()/stop()
    kpc,              \* position of each consumer
    kret,             \* what the consumer's accessor has loaded / returned
    published         \* history: tag written by the last completed publish

VARIABLES
    dpc,              \* driver model: position of the thread using the driver
    bank,             \* device: user bank selected by REG_BANK_SEL (0..3)
    user_ctrl,        \* device: USER_CTRL register (bank 0, 0x03)
    slv0_ctrl,        \* device: I2C_SLV0_CTRL register (bank 3, 0x05)
    slv1_ctrl,        \* device: I2C_SLV1_CTRL register (bank 3, 0x09)
    slv0_reg,         \* device: I2C_SLV0_REG register (bank 3, 0x04)
    ext,              \* device: bytes in the external-sensor-data window
    temp,             \* local `temp` of _read_secondary / _write_secondary
    sret,             \* where the running secondary-bus routine returns to
    sreg,             \* argument `reg_addr` of the running secondary routine
    slen,             \* argument `length` of the running _read_secondary
    sdata,            \* local `data` of _read_secondary, then its result
    cal,              \* _calibrate_gyro: completed iterations of its loop
    polls,            \* _read_mag_raw: completed iterations of its loop
    graw,             \* read(): gx_raw, gy_raw, gz_raw
    araw,             \* read(): ax_raw, ay_raw, az_raw
    mraw,             \* read(): mx_raw, my_raw, mz_raw
    dret,             \* what the last initialize() / read() returned
    chk,              \* history: what this initialize()'s magnetometer
                      \* check read
    magDetected,      \* history: result of the last _check_magnetometer
    cfgCalled,        \* history: this initialize() called _write_secondary
    fault,            \* history: what went wrong in the current call
    pollLog,          \* history: data-ready bit seen by each poll of this
                      \* _read_mag_raw
    xfer,             \* history: the last bus transfer that completed
    nx,               \* history: bus transfers completed in this call
    ilog,             \* history: the bus transfers of this initialize()
    slog,             \* history: the bus transfers of the secondary-bus
                      \* routine entered last
    sel,              \* argument `bank` of a direct _select_bank call
    handles           \* bus handles opened by the driver and not closed

VARIABLES
    rawsrc,           \* raw read model: which raw read ran last
    rawdata,          \* the six bytes its block read returns
    rawdec,           \* the triple it returned
    gyro_offset,      \* ICM20948.gyro_offset
    cstage,           \* calibration model: position in _calibrate_gyro
    csums,            \* local `sums` of _calibrate_gyro
    cpass,            \* completed passes of its loop
    cseen,            \* history: the raw triples its passes have read
    gyro_avg,         \* ICM20948._gyro_avg: per axis a ring of 8 slots
    gyro_idx,         \* ICM20948._gyro_idx: per axis the next slot (0..7)
    gxyz,             \* read(): gx, gy, gz
    motion,           \* read(): motion_gx, motion_gy, motion_gz
    gyro_data,        \* read(): gyro_data, the gyro value it returns
    lastavg,          \* read(): what _calc_avg returned for the three axes
    pushed            \* history: the raw gyro triples pushed, the last 8

VARIABLES
    quat,             \* ICM20948.q0, q1, q2, q3
    anorm,            \* _ahrs_update: ax, ay, az after normalisation
    mnorm,            \* _ahrs_update: mx, my, mz after normalisation
    bxz,              \* _ahrs_update: bx, bz
    exyz,             \* _ahrs_update: ex, ey, ez
    gcorr,            \* _ahrs_update: gx, gy, gz at the integration
    qloc,             \* _ahrs_update: q0..q3 after the integration
    updates           \* number of _ahrs_update calls so far

VARIABLES
    accel_avg,        \* ICM20948._accel_avg: per axis a ring of 8 slots
    accel_idx,        \* ICM20948._accel_idx: per axis the next slot (0..7)
    mag_avg,          \* ICM20948._mag_avg: per axis a ring of 8 slots
    mag_idx,          \* ICM20948._mag_idx: per axis the next slot (0..7)
    axyz,             \* read(): ax, ay, az
    mxyz,             \* read(): mx, my, mz
    entry             \* history: the filter state when read() was entered

\* State of ThreadedIMU and of its threads.
samplerVars == << running, avail, thread, lock, angles, gyro, accel, mag,
                  imu_lock, tpc, tres, failed, cpc, lastOp, kpc, kret,
                  published >>
\* State of the register-level driver model.
devVars == << bank, user_ctrl, slv0_ctrl, slv1_ctrl, slv0_reg, ext >>
secVars == << temp, sret, sreg, slen, sdata >>
rawVars == << graw, araw, mraw >>
chkVars == << chk, magDetected, cfgCalled, fault, pollLog >>
logVars == << xfer, nx, ilog, slog >>
histVars == << chkVars, logVars, sel, handles >>
drvVars == << dpc, devVars, secVars, cal, polls, rawVars, dret, histVars >>
\* State of the models of the driver's arithmetic.
decVars == << rawsrc, rawdata, rawdec >>
calVars == << cstage, csums, cpass, cseen >>
avgVars == << gyro_avg, gyro_idx, gxyz, motion, gyro_data, lastavg, pushed >>
ahrsVars == << quat, anorm, mnorm, bxz, exyz, gcorr, qloc, updates >>
cycVars == << accel_avg, accel_idx, mag_avg, mag_idx, axyz, mxyz, entry >>
arithVars == << decVars, gyro_offset, calVars, avgVars, ahrsVars, cycVars >>
\* Everything the sampler model leaves alone.
auxVars == << drvVars, arithVars >>

vars == << samplerVars, imu_initialized, imu_bus, auxVars >>

snapVars == << angles, gyro, accel, mag >>
imuVars  == << imu_initialized, imu_bus >>
ctlVars  == << cpc, lastOp >>
conVars  == << kpc, kret >>
flagVars == << running, avail, thread >>

\* ThreadedIMU.available (property)
available == avail /\ running

\* A background thread that has been started and has not exited ("crashed":
\* an exception left _read_loop).
Alive(t) == tpc[t] \notin {"unborn", "done", "crashed"}
AliveThreads == {t \in Threads : Alive(t)}

\* Positions of _read_loop inside ICM20948.read() doing bus I/O.
IoPcs == {"r_gyro", "r_accel", "r_mag"}
\* Positions of _read_loop inside the `with self._lock` block of the publish.
PublishPcs == {"pub_angles", "pub_gyro", "pub_accel", "pub_mag"}
\* Positions inside one sample cycle: from the call of read() to the end of
\* the publish.
CyclePcs == {"r_enter", "r_filter", "r_except", "pub_acquire"}
                \cup IoPcs \cup PublishPcs

\* The tag of thread t's next successful cycle: one of t's own NTags tags,
\* different from the tag `old` of the tuple t returned before.
NextTag(t, old) ==
    LET base == (t - 1) * NTags
    IN  IF old = 0 THEN base + 1 ELSE base + ((old - base) % NTags) + 1

\* ThreadedIMU.__init__ and ICM20948.__init__; no thread exists yet.
SamplerInit ==
    /\ running = FALSE
    /\ avail = FALSE
    /\ thread = 0
    /\ lock = 0
    /\ angles = 0 /\ gyro = 0 /\ accel = 0 /\ mag = 0
    /\ imu_initialized = FALSE
    /\ imu_bus = FALSE
    /\ imu_lock = 0
    /\ tpc = [t \in Threads |-> "unborn"]
    /\ tres = [t \in Threads |-> 0]
    /\ failed = [t \in Threads |-> FALSE]
    /\ cpc = "idle"
    /\ lastOp = "none"
    /\ kpc = [c \in Consumers |-> "idle"]
    /\ kret = [c \in Consumers |-> << >>]
    /\ published = 0

\* One bus transfer: a byte write, a byte read or a block read (op) of
\* register `reg` with the byte `val` (0 for a block read), made while the
\* device had `bank` selected; `home` is the user bank of the register the
\* statement names (lines 37-72).
Transfer(op, home, sel_bank, reg, val) ==
    [op |-> op, home |-> home, bank |-> sel_bank, reg |-> reg, val |-> val]
NoTransfer == Transfer("none", 0, 0, 0, 0)

\* The register-level driver model at rest.
DrvIdle ==
    /\ dpc = "idle"
    /\ bank = 0 /\ user_ctrl = 0 /\ slv0_ctrl = 0 /\ slv1_ctrl = 0
    /\ slv0_reg = 0 /\ ext = << >>
    /\ temp = 0 /\ sret = "none" /\ sreg = 0 /\ slen = 0 /\ sdata = << >>
    /\ cal = 0 /\ polls = 0
    /\ graw = << >> /\ araw = << >> /\ mraw = << >>
    /\ dret = [op |-> "none", kind |-> "none", g |-> << >>, a |-> << >>,
               m |-> << >>]
    /\ chk = [res |-> "none", data |-> << >>] /\ magDetected = "unknown"
    /\ cfgCalled = FALSE /\ fault = "none"
    /\ pollLog = << >>
    /\ xfer = NoTransfer /\ nx = 0 /\ ilog = << >> /\ slog = << >>
    /\ sel = 0 /\ handles = 0

\* The raw read model before any raw read.
DecIdle ==
    /\ rawsrc = "none"
    /\ rawdata = << >>
    /\ rawdec = << >>

\* The calibration model before _calibrate_gyro is called; __init__ has set
\* gyro_offset to [0, 0, 0].
CalIdle ==
    /\ gyro_offset = << 0, 0, 0 >>
    /\ cstage = "idle"
    /\ csums = << 0, 0, 0 >>
    /\ cpass = 0
    /\ cseen = {}

\* The rings and indices as __init__ builds them; nothing read yet.
AvgIdle ==
    /\ gyro_avg = [i \in 1..3 |-> << 0, 0, 0, 0, 0, 0, 0, 0 >>]
    /\ gyro_idx = [i \in 1..3 |-> 0]
    /\ gxyz = << >>
    /\ motion = << >>
    /\ gyro_data = << >>
    /\ lastavg = << >>
    /\ pushed = << >>

\* The quaternion as __init__ sets it (lines 132-133), at the scale of the
\* fixed-point values of the filter model; no update has run.
AhrsIdle ==
    /\ quat = << ONE, 0, 0, 0 >>
    /\ anorm = << 0, 0, 0 >>
    /\ mnorm = << 0, 0, 0 >>
    /\ bxz = << 0, 0 >>
    /\ exyz = << 0, 0, 0 >>
    /\ gcorr = << 0, 0, 0 >>
    /\ qloc = << ONE, 0, 0, 0 >>
    /\ updates = 0

\* Lines 141-144: the accelerometer and magnetometer rings as built.
CycIdle ==
    /\ accel_avg = [i \in 1..3 |-> << 0, 0, 0, 0, 0, 0, 0, 0 >>]
    /\ accel_idx = [i \in 1..3 |-> 0]
    /\ mag_avg = [i \in 1..3 |-> << 0, 0, 0, 0, 0, 0, 0, 0 >>]
    /\ mag_idx = [i \in 1..3 |-> 0]
    /\ axyz = << >>
    /\ mxyz = << >>
    /\ entry = << >>

ArithIdle == DecIdle /\ CalIdle /\ AvgIdle /\ AhrsIdle /\ CycIdle

AuxIdle == DrvIdle /\ ArithIdle

Init == SamplerInit /\ AuxIdle

(***************************************************************************)
(* Controller: ThreadedIMU.start()                                         *)
(***************************************************************************)

\* A thread slot that holds no live thread (never used, or its loop exited).
FreeSlots == {t \in Threads : ~Alive(t)}

\* start() is called; control enters self.imu.initialize().
StartCall ==
    /\ cpc = "idle"
    /\ FreeSlots # {}
    /\ cpc' = "i_open"
    /\ UNCHANGED << running, avail, thread, lock, snapVars, imuVars,
                    imu_lock, tpc, tres, failed, lastOp, conVars, published >>
    /\ UNCHANGED auxVars

\* initialize(): self.bus = smbus2.SMBus(self.i2c_bus).  Opening may raise;
\* then self.bus keeps its old value.
InitOpen ==
    /\ cpc = "i_open"
    /\ \/ /\ imu_bus' = TRUE
          /\ cpc' = "i_check"
       \/ /\ imu_bus' = imu_bus
          /\ cpc' = "i_except"
    /\ UNCHANGED << running, avail, thread, lock, snapVars,
                    imu_initialized, imu_lock, tpc, tres, failed, lastOp,
                    conVars, published >>
    /\ UNCHANGED auxVars

\* initialize(): if not self._check_device(): return False.  _check_device
\* catches its own I/O error and returns False, like a who-am-I mismatch.
InitCheckDevice ==
    /\ cpc = "i_check"
    /\ \/ cpc' = "i_config"
       \/ cpc' = "st_false"
    /\ UNCHANGED << running, avail, thread, lock, snapVars, imuVars,
                    imu_lock, tpc, tres, failed, lastOp, conVars, published >>
    /\ UNCHANGED auxVars

\* initialize(): reset, bank-2 configuration, gyro calibration, magnetometer
\* check and configuration.  Any register access may raise.
InitConfigure ==
    /\ cpc = "i_config"
    /\ \/ cpc' = "i_ready"
       \/ cpc' = "i_except"
    /\ UNCHANGED << running, avail, thread, lock, snapVars, imuVars,
                    imu_lock, tpc, tres, failed, lastOp, conVars, published >>
    /\ UNCHANGED auxVars

\* initialize(): self.initialized = True; return True.
InitReady ==
    /\ cpc = "i_ready"
    /\ imu_initialized' = TRUE
    /\ cpc' = "st_running"
    /\ UNCHANGED << running, avail, thread, lock, snapVars, imu_bus,
                    imu_lock, tpc, tres, failed, lastOp, conVars, published >>
    /\ UNCHANGED auxVars

\* initialize(): except Exception: print(...); return False.
InitExcept ==
    /\ cpc = "i_except"
    /\ cpc' = "st_false"
    /\ UNCHANGED << running, avail, thread, lock, snapVars, imuVars,
                    imu_lock, tpc, tres, failed, lastOp, conVars, published >>
    /\ UNCHANGED auxVars

\* start(): if not self.imu.initialize(): return False.
StartReturnFalse ==
    /\ cpc = "st_false"
    /\ cpc' = "idle"
    /\ lastOp' = "start_fail"
    /\ UNCHANGED << running, avail, thread, lock, snapVars, imuVars,
                    imu_lock, tpc, tres, failed, conVars, published >>
    /\ UNCHANGED auxVars

\* start(): self._running = True.
StartSetRunning ==
    /\ cpc = "st_running"
    /\ running' = TRUE
    /\ cpc' = "st_available"
    /\ UNCHANGED << avail, thread, lock, snapVars, imuVars,
                    imu_lock, tpc, tres, failed, lastOp, conVars, published >>
    /\ UNCHANGED auxVars

\* start(): self._available = True.
StartSetAvailable ==
    /\ cpc = "st_available"
    /\ avail' = TRUE
    /\ cpc' = "st_thread"
    /\ UNCHANGED << running, thread, lock, snapVars, imuVars,
                    imu_lock, tpc, tres, failed, lastOp, conVars, published >>
    /\ UNCHANGED auxVars

\* The slot the new thread takes.
NewSlot == CHOOSE t \in FreeSlots : \A u \in FreeSlots : t <= u

\* start(): self._thread = threading.Thread(target=self._read_loop);
\* self._thread.start(); return True.
StartThread ==
    /\ cpc = "st_thread"
    /\ thread' = NewSlot
    /\ tpc' = [tpc EXCEPT ![NewSlot] = "check"]
    /\ tres' = [tres EXCEPT ![NewSlot] = 0]
    /\ failed' = [failed EXCEPT ![NewSlot] = FALSE]
    /\ cpc' = "idle"
    /\ lastOp' = "start_ok"
    /\ UNCHANGED << running, avail, lock, snapVars, imuVars,
                    imu_lock, conVars, published >>
    /\ UNCHANGED auxVars

(***************************************************************************)
(* Controller: ThreadedIMU.stop()                                          *)
(***************************************************************************)

\* stop(): self._running = False.
StopClearRunning ==
    /\ cpc = "idle"
    /\ running' = FALSE
    /\ cpc' = "sp_join"
    /\ UNCHANGED << avail, thread, lock, snapVars, imuVars,
                    imu_lock, tpc, tres, failed, lastOp, conVars, published >>
    /\ UNCHANGED auxVars

\* A thread that is inside a blocking call: a bus transfer, the sleep of the
\* loop, or the wait for a lock that is held.
Blocked(t) ==
    \/ tpc[t] \in IoPcs \cup {"sleep"}
    \/ tpc[t] = "pub_acquire" /\ lock # 0
    \/ tpc[t] = "r_enter" /\ imu_initialized /\ imu_lock # 0

\* stop(): if self._thread: self._thread.join(timeout=1).  join returns when
\* the thread has finished, or when the second has passed with the thread
\* still alive (it is inside a blocking call that outlasts the timeout);
\* the thread's state is not looked at afterwards.
StopJoin ==
    /\ cpc = "sp_join"
    /\ \/ thread = 0
       \/ thread # 0 /\ ~Alive(thread)
       \/ thread # 0 /\ Alive(thread) /\ Blocked(thread)
    /\ cpc' = "sp_close"
    /\ UNCHANGED << running, avail, thread, lock, snapVars, imuVars,
                    imu_lock, tpc, tres, failed, lastOp, conVars, published >>
    /\ UNCHANGED auxVars

\* ICM20948.close(): if self.bus: self.bus.close(); self.bus = None;
\* self.initialized = False.
close ==
    /\ imu_bus' = FALSE
    /\ imu_initialized' = FALSE

\* stop(): self.imu.close(); return.
StopClose ==
    /\ cpc = "sp_close"
    /\ close
    /\ cpc' = "idle"
    /\ lastOp' = "stop"
    /\ UNCHANGED << running, avail, thread, lock, snapVars,
                    imu_lock, tpc, tres, failed, conVars, published >>
    /\ UNCHANGED auxVars

Controller ==
    \/ StartCall \/ InitOpen \/ InitCheckDevice \/ InitConfigure
    \/ InitReady \/ InitExcept \/ StartReturnFalse \/ StartSetRunning
    \/ StartSetAvailable \/ StartThread
    \/ StopClearRunning \/ StopJoin \/ StopClose

(***************************************************************************)
(* Background thread: ThreadedIMU._read_loop and the ICM20948.read() it    *)
(* calls                                                                   *)
(***************************************************************************)

\* Faulty variant of LoopCheck: the loop calls read() inside its
\* `with self._lock` block, so the snapshot lock is taken before the cycle.
LoopCheck_ReadUnderLock(t) ==
    /\ tpc[t] = "check"
    /\ running => lock = 0
    /\ lock' = IF running THEN ThreadId(t) ELSE lock
    /\ tpc' = [tpc EXCEPT ![t] = IF running THEN "r_enter" ELSE "done"]
    /\ failed' = [failed EXCEPT ![t] = FALSE]
    /\ UNCHANGED << flagVars, snapVars, imuVars, imu_lock, tres, ctlVars,
                    conVars, published >>
    /\ UNCHANGED auxVars

\* _read_loop: while self._running.
LoopCheck(t) ==
    /\ tpc[t] = "check"
    /\ tpc' = [tpc EXCEPT ![t] = IF running THEN "r_enter" ELSE "done"]
    /\ failed' = [failed EXCEPT ![t] = FALSE]
    /\ UNCHANGED << flagVars, lock, snapVars, imuVars, imu_lock,
                    tres, ctlVars, conVars, published >>
    /\ UNCHANGED auxVars

\* read(): if not self.initialized: return the default tuple;
\* otherwise enter `with self._lock` (the driver's own lock) and the try.
ReadEnter(t) ==
    /\ tpc[t] = "r_enter"
    /\ \/ /\ ~imu_initialized
          /\ tres' = [tres EXCEPT ![t] = 0]
          /\ tpc' = [tpc EXCEPT ![t] = "pub_acquire"]
          /\ UNCHANGED imu_lock
       \/ /\ imu_initialized
          /\ imu_lock = 0
          /\ imu_lock' = ThreadId(t)
          /\ tpc' = [tpc EXCEPT ![t] = "r_gyro"]
          /\ UNCHANGED tres
    /\ UNCHANGED << flagVars, lock, snapVars, imuVars, failed,
                    ctlVars, conVars, published >>
    /\ UNCHANGED auxVars

\* Where an exception raised inside read()'s try block takes control: the
\* `except Exception` clause of read().
Raise(t) == "r_except"

\* One raw read of read(): bus I/O on self.bus.  It raises when self.bus is
\* None (closed by stop()) and may raise on any transfer; otherwise control
\* reaches the next statement.
RawRead(t, here, next) ==
    /\ tpc[t] = here
    /\ \/ /\ imu_bus
          /\ tpc' = [tpc EXCEPT ![t] = next]
       \/ tpc' = [tpc EXCEPT ![t] = Raise(t)]
    /\ UNCHANGED << flagVars, lock, snapVars, imuVars, imu_lock,
                    tres, failed, ctlVars, conVars, published >>
    /\ UNCHANGED auxVars

\* read(): gx_raw, gy_raw, gz_raw = self._read_gyro_raw().
ReadGyro(t) == RawRead(t, "r_gyro", "r_accel")

\* read(): ax_raw, ay_raw, az_raw = self._read_accel_raw().
ReadAccel(t) == RawRead(t, "r_accel", "r_mag")

\* read(): mx_raw, my_raw, mz_raw = self._read_mag_raw().
ReadMag(t) == RawRead(t, "r_mag", "r_filter")

\* read(): averaging, AHRS update, Euler angles, unit conversion; return the
\* tuple of this cycle and leave `with self._lock`.
ReadFilter(t) ==
    /\ tpc[t] = "r_filter"
    /\ tres' = [tres EXCEPT ![t] = NextTag(t, tres[t])]
    /\ imu_lock' = 0
    /\ tpc' = [tpc EXCEPT ![t] = "pub_acquire"]
    /\ UNCHANGED << flagVars, lock, snapVars, imuVars, failed,
                    ctlVars, conVars, published >>
    /\ UNCHANGED auxVars

\* read(): except Exception: print(...); return the default tuple (and leave
\* `with self._lock`).
ReadExcept(t) ==
    /\ tpc[t] = "r_except"
    /\ tres' = [tres EXCEPT ![t] = 0]
    /\ failed' = [failed EXCEPT ![t] = TRUE]
    /\ imu_lock' = 0
    /\ tpc' = [tpc EXCEPT ![t] = "pub_acquire"]
    /\ UNCHANGED << flagVars, lock, snapVars, imuVars, ctlVars,
                    conVars, published >>
    /\ UNCHANGED auxVars

\* Faulty variant of PublishAcquire: the loop writes the snapshot fields
\* without taking the snapshot lock.
PublishAcquire_NoLock(t) ==
    /\ tpc[t] = "pub_acquire"
    /\ tpc' = [tpc EXCEPT ![t] = "pub_angles"]
    /\ UNCHANGED << flagVars, lock, snapVars, imuVars, imu_lock, tres,
                    failed, ctlVars, conVars, published >>
    /\ UNCHANGED auxVars

\* _read_loop: with self._lock (the snapshot lock).
PublishAcquire(t) ==
    /\ tpc[t] = "pub_acquire"
    /\ lock = 0
    /\ lock' = ThreadId(t)
    /\ tpc' = [tpc EXCEPT ![t] = "pub_angles"]
    /\ UNCHANGED << flagVars, snapVars, imuVars, imu_lock, tres,
                    failed, ctlVars, conVars, published >>
    /\ UNCHANGED auxVars

\* _read_loop: self._angles = angles.
PublishAngles(t) ==
    /\ tpc[t] = "pub_angles"
    /\ angles' = tres[t]
    /\ tpc' = [tpc EXCEPT ![t] = "pub_gyro"]
    /\ UNCHANGED << flagVars, lock, gyro, accel, mag, imuVars,
                    imu_lock, tres, failed, ctlVars, conVars, published >>
    /\ UNCHANGED auxVars

\* _read_loop: self._gyro = gyro.
PublishGyro(t) ==
    /\ tpc[t] = "pub_gyro"
    /\ gyro' = tres[t]
    /\ tpc' = [tpc EXCEPT ![t] = "pub_accel"]
    /\ UNCHANGED << flagVars, lock, angles, accel, mag, imuVars,
                    imu_lock, tres, failed, ctlVars, conVars, published >>
    /\ UNCHANGED auxVars

\* _read_loop: self._accel = accel.
PublishAccel(t) ==
    /\ tpc[t] = "pub_accel"
    /\ accel' = tres[t]
    /\ tpc' = [tpc EXCEPT ![t] = "pub_mag"]
    /\ UNCHANGED << flagVars, lock, angles, gyro, mag, imuVars,
                    imu_lock, tres, failed, ctlVars, conVars, published >>
    /\ UNCHANGED auxVars

\* _read_loop: self._mag = mag; the with block ends and releases the lock.
PublishMag(t) ==
    /\ tpc[t] = "pub_mag"
    /\ mag' = tres[t]
    /\ lock' = IF lock = ThreadId(t) THEN 0 ELSE lock
    /\ published' = tres[t]
    /\ tpc' = [tpc EXCEPT ![t] = "sleep"]
    /\ UNCHANGED << flagVars, angles, gyro, accel, imuVars,
                    imu_lock, tres, failed, ctlVars, conVars >>
    /\ UNCHANGED auxVars

\* _read_loop: time.sleep(self.update_rate).
LoopSleep(t) ==
    /\ tpc[t] = "sleep"
    /\ tpc' = [tpc EXCEPT ![t] = "check"]
    /\ UNCHANGED << flagVars, lock, snapVars, imuVars, imu_lock,
                    tres, failed, ctlVars, conVars, published >>
    /\ UNCHANGED auxVars

Loop(t) ==
    \/ LoopCheck(t) \/ ReadEnter(t) \/ ReadGyro(t) \/ ReadAccel(t)
    \/ ReadMag(t) \/ ReadFilter(t) \/ ReadExcept(t)
    \/ PublishAcquire(t) \/ PublishAngles(t) \/ PublishGyro(t)
    \/ PublishAccel(t) \/ PublishMag(t) \/ LoopSleep(t)

(***************************************************************************)
(* Consumers: ThreadedIMU.get_data() and ThreadedIMU.get_angles()          *)
(***************************************************************************)

\* A consumer calls get_data().
GetDataCall(c) ==
    /\ kpc[c] = "idle"
    /\ kpc' = [kpc EXCEPT ![c] = "gd_acquire"]
    /\ kret' = [kret EXCEPT ![c] = << >>]
    /\ UNCHANGED << flagVars, lock, snapVars, imuVars, imu_lock,
                    tpc, tres, failed, ctlVars, published >>
    /\ UNCHANGED auxVars

\* Faulty variant of GetDataAcquire: get_data() loads the fields without
\* taking the snapshot lock.
GetDataAcquire_NoLock(c) ==
    /\ kpc[c] = "gd_acquire"
    /\ kpc' = [kpc EXCEPT ![c] = "gd_angles"]
    /\ UNCHANGED << flagVars, lock, snapVars, imuVars, imu_lock, tpc, tres,
                    failed, ctlVars, kret, published >>
    /\ UNCHANGED auxVars

\* get_data(): with self._lock.
GetDataAcquire(c) ==
    /\ kpc[c] = "gd_acquire"
    /\ lock = 0
    /\ lock' = ConsumerId(c)
    /\ kpc' = [kpc EXCEPT ![c] = "gd_angles"]
    /\ UNCHANGED << flagVars, snapVars, imuVars, imu_lock, tpc,
                    tres, failed, ctlVars, kret, published >>
    /\ UNCHANGED auxVars

\* get_data(): one attribute load of the returned tuple.
Load(c, here, next, field) ==
    /\ kpc[c] = here
    /\ kret' = [kret EXCEPT ![c] = Append(@, field)]
    /\ kpc' = [kpc EXCEPT ![c] = next]

\* get_data(): return self._angles, self._gyro, self._accel, self._mag; the
\* with block ends after the last load and releases the lock.
GetDataLoad(c) ==
    /\ \/ Load(c, "gd_angles", "gd_gyro", angles) /\ UNCHANGED lock
       \/ Load(c, "gd_gyro", "gd_accel", gyro) /\ UNCHANGED lock
       \/ Load(c, "gd_accel", "gd_mag", accel) /\ UNCHANGED lock
       \/ /\ Load(c, "gd_mag", "idle", mag)
          /\ lock' = IF lock = ConsumerId(c) THEN 0 ELSE lock
    /\ UNCHANGED << flagVars, snapVars, imuVars, imu_lock, tpc,
                    tres, failed, ctlVars, published >>
    /\ UNCHANGED auxVars

\* A consumer calls get_angles().
GetAnglesCall(c) ==
    /\ kpc[c] = "idle"
    /\ kpc' = [kpc EXCEPT ![c] = "ga_acquire"]
    /\ kret' = [kret EXCEPT ![c] = << >>]
    /\ UNCHANGED << flagVars, lock, snapVars, imuVars, imu_lock,
                    tpc, tres, failed, ctlVars, published >>
    /\ UNCHANGED auxVars

\* get_angles(): with self._lock.
GetAnglesAcquire(c) ==
    /\ kpc[c] = "ga_acquire"
    /\ lock = 0
    /\ lock' = ConsumerId(c)
    /\ kpc' = [kpc EXCEPT ![c] = "ga_angles"]
    /\ UNCHANGED << flagVars, snapVars, imuVars, imu_lock, tpc,
                    tres, failed, ctlVars, kret, published >>
    /\ UNCHANGED auxVars

\* get_angles(): return self._angles; the with block ends.
GetAnglesLoad(c) ==
    /\ Load(c, "ga_angles", "idle", angles)
    /\ lock' = IF lock = ConsumerId(c) THEN 0 ELSE lock
    /\ UNCHANGED << flagVars, snapVars, imuVars, imu_lock, tpc,
                    tres, failed, ctlVars, published >>
    /\ UNCHANGED auxVars

Consumer(c) ==
    \/ GetDataCall(c) \/ GetDataAcquire(c) \/ GetDataLoad(c)
    \/ GetAnglesCall(c) \/ GetAnglesAcquire(c) \/ GetAnglesLoad(c)

Next ==
    \/ Controller
    \/ \E t \in Threads : Loop(t)
    \/ \E c \in Consumers : Consumer(c)

Spec == Init /\ [][Next]_vars

\* The controller and the background threads alone, under the scheduling
\* the interpreter and the operating system give them: a thread that can
\* take its next step takes it (a sleep ends, a bus transfer returns or
\* raises, a call that was entered runs on), and a thread that waits for a
\* lock gets it if the lock is free again and again.  Whether and when
\* start() and stop() are called is left open.
LoopNext ==
    \/ Controller
    \/ \E t \in Threads : Loop(t)

ControllerProgress ==
    \/ InitOpen \/ InitCheckDevice \/ InitConfigure \/ InitReady
    \/ InitExcept \/ StartReturnFalse \/ StartSetRunning
    \/ StartSetAvailable \/ StartThread \/ StopJoin \/ StopClose

Fairness ==
    /\ WF_vars(ControllerProgress)
    /\ \A t \in Threads :
          /\ WF_vars(Loop(t))
          /\ SF_vars(PublishAcquire(t))
          /\ SF_vars(ReadEnter(t))

FairSpec == Init /\ [][LoopNext]_vars /\ Fairness

(***************************************************************************)
(* The driver at the level of single bus transfers                         *)
(*                                                                         *)
(* One thread uses an ICM20948 object: it calls initialize(), read() and  *)
(* close() one after the other, in any order.  Every _read_byte,           *)
(* _write_byte and block read is one step and may raise an I/O error, in   *)
(* which case the device is left as it was.  The device keeps the selected *)
(* bank and the three registers the secondary-bus routines read back.      *)
(***************************************************************************)

\* Register addresses and values (decimal; the source writes them in hex).
REG_ADD_REG_BANK_SEL == 127
REG_ADD_WIA == 0
REG_VAL_WIA == 234
REG_ADD_USER_CTRL == 3
REG_VAL_BIT_I2C_MST_EN == 32
REG_ADD_PWR_MIGMT_1 == 6
REG_VAL_ALL_RGE_RESET == 128
REG_VAL_RUN_MODE == 1
REG_ADD_ACCEL_XOUT_H == 45
REG_ADD_GYRO_XOUT_H == 51
REG_ADD_EXT_SENS_DATA_00 == 59
REG_ADD_I2C_SLV0_ADDR == 3
REG_ADD_I2C_SLV0_REG == 4
REG_ADD_I2C_SLV0_CTRL == 5
REG_VAL_BIT_SLV0_EN == 128
REG_VAL_BIT_MASK_LEN == 7
REG_ADD_I2C_SLV1_ADDR == 7
REG_ADD_I2C_SLV1_REG == 8
REG_ADD_I2C_SLV1_CTRL == 9
REG_ADD_I2C_SLV1_DO == 10
I2C_ADD_ICM20948_AK09916 == 12
I2C_ADD_ICM20948_AK09916_READ == 128
I2C_ADD_ICM20948_AK09916_WRITE == 0
REG_ADD_MAG_WIA1 == 0
REG_VAL_MAG_WIA1 == 72
REG_VAL_MAG_WIA2 == 9
REG_ADD_MAG_ST2 == 16
REG_ADD_MAG_DATA == 17
REG_ADD_MAG_CNTL2 == 49
REG_VAL_MAG_MODE_20HZ == 4
MAG_DATA_LEN == 6
\* range(32) of _calibrate_gyro and range(20) of _read_mag_raw.
CalSamples == 32
MagPolls == 20

\* Python's & and | on non-negative integers, and a & ~b.
RECURSIVE BitAnd(_, _)
BitAnd(a, b) ==
    IF a = 0 \/ b = 0 THEN 0
    ELSE (a % 2) * (b % 2) + 2 * BitAnd(a \div 2, b \div 2)

RECURSIVE BitOr(_, _)
BitOr(a, b) ==
    IF a = 0 THEN b
    ELSE IF b = 0 THEN a
    ELSE (IF a % 2 = 1 \/ b % 2 = 1 THEN 1 ELSE 0)
             + 2 * BitOr(a \div 2, b \div 2)

RECURSIVE BitAndNot(_, _)
BitAndNot(a, b) ==
    IF a = 0 THEN 0
    ELSE (IF a % 2 = 1 /\ b % 2 = 0 THEN 1 ELSE 0)
             + 2 * BitAndNot(a \div 2, b \div 2)

\* What the device does with a byte written to register `reg`: register
\* 0x7F selects the bank in every bank; every other address names a register
\* of the bank selected at that moment.  The reset bit of the power
\* management register puts the registers back to their reset value 0.
DevWrite(reg, value) ==
    IF reg = REG_ADD_REG_BANK_SEL
      THEN /\ bank' = (value \div 16) % 4
           /\ UNCHANGED << user_ctrl, slv0_ctrl, slv1_ctrl, slv0_reg, ext >>
    ELSE IF bank = 0 /\ reg = REG_ADD_PWR_MIGMT_1
                     /\ BitAnd(value, REG_VAL_ALL_RGE_RESET) # 0
      THEN /\ user_ctrl' = 0 /\ slv0_ctrl' = 0 /\ slv1_ctrl' = 0
           /\ slv0_reg' = 0 /\ ext' = << >>
           /\ UNCHANGED bank
    ELSE IF bank = 0 /\ reg = REG_ADD_USER_CTRL
      THEN /\ user_ctrl' = value
           /\ UNCHANGED << bank, slv0_ctrl, slv1_ctrl, slv0_reg, ext >>
    ELSE IF bank = 3 /\ reg = REG_ADD_I2C_SLV0_REG
      THEN /\ slv0_reg' = value
           /\ UNCHANGED << bank, user_ctrl, slv0_ctrl, slv1_ctrl, ext >>
    ELSE IF bank = 3 /\ reg = REG_ADD_I2C_SLV0_CTRL
      THEN /\ slv0_ctrl' = value
           /\ UNCHANGED << bank, user_ctrl, slv1_ctrl, slv0_reg, ext >>
    ELSE IF bank = 3 /\ reg = REG_ADD_I2C_SLV1_CTRL
      THEN /\ slv1_ctrl' = value
           /\ UNCHANGED << bank, user_ctrl, slv0_ctrl, slv0_reg, ext >>
    ELSE UNCHANGED devVars

\* Bytes a register without modelled content may return.
ByteSamples == {0, 1, REG_VAL_WIA, 255}

\* What the magnetometer may answer when its register `mreg` is read: the
\* who-am-I pair (right, or wrong in either byte), a status byte with or
\* without the data-ready bit, six measurement bytes.
ExtSamples(mreg) ==
    IF mreg = REG_ADD_MAG_WIA1
      THEN {<< REG_VAL_MAG_WIA1, REG_VAL_MAG_WIA2 >>, << 0, 0 >>,
            << REG_VAL_MAG_WIA1, 0 >>, << 0, REG_VAL_MAG_WIA2 >>}
    ELSE IF mreg = REG_ADD_MAG_ST2
      THEN {<< 0 >>, << 1 >>, << 2 >>, << 3 >>}
    ELSE {<< 0, 0, 0, 0, 0, 0 >>, << 52, 18, 255, 127, 0, 128 >>}

\* While the driver waits with the I2C master enabled, the device runs the
\* armed slave-0 read and loads the answer into the external-sensor-data
\* window.
MasterRuns ==
    /\ IF /\ BitAnd(user_ctrl, REG_VAL_BIT_I2C_MST_EN) # 0
          /\ BitAnd(slv0_ctrl, REG_VAL_BIT_SLV0_EN) # 0
         THEN \E v \in ExtSamples(slv0_reg) : ext' = v
         ELSE UNCHANGED ext
    /\ UNCHANGED << bank, user_ctrl, slv0_ctrl, slv1_ctrl, slv0_reg >>

\* The bytes the device may return for a read of register `reg`.
DevRead(reg) ==
    IF bank = 0 /\ reg = REG_ADD_USER_CTRL THEN {user_ctrl}
    ELSE IF bank = 0 /\ reg >= REG_ADD_EXT_SENS_DATA_00
      THEN LET i == reg - REG_ADD_EXT_SENS_DATA_00 + 1
           IN  IF i <= Len(ext) THEN {ext[i]} ELSE {0}
    ELSE IF bank = 3 /\ reg = REG_ADD_I2C_SLV0_CTRL THEN {slv0_ctrl}
    ELSE IF bank = 3 /\ reg = REG_ADD_I2C_SLV1_CTRL THEN {slv1_ctrl}
    ELSE ByteSamples

\* Positions inside _read_secondary and inside _write_secondary.
RsPcs == {"rs_bank3", "rs_addr", "rs_reg", "rs_ctrl", "rs_bank0", "rs_rd_uc",
          "rs_set_en", "rs_sleep", "rs_clr_en", "rs_data", "rs_bank3b",
          "rs_rd_ctrl", "rs_wr_ctrl", "rs_bank0b"}
WsPcs == {"ws_bank3", "ws_addr", "ws_reg", "ws_do", "ws_ctrl", "ws_bank0",
          "ws_rd_uc", "ws_set_en", "ws_sleep", "ws_clr_en", "ws_bank3b",
          "ws_rd_ctrl", "ws_wr_ctrl", "ws_bank0b"}
\* Positions inside initialize() outside the secondary-bus routines.
InitPcs == {"i_open", "i_wia", "i_not_found", "i_rst_bank", "i_rst", "i_run",
            "i_cfg_bank", "i_cfg_gdiv", "i_cfg_gcfg", "i_cfg_adiv",
            "i_cfg_acfg", "i_cfg_bank0", "i_cal_start", "i_cal_bank",
            "i_cal_read",
            "i_mag_check", "i_mag_checked", "i_ready", "i_except"}

\* Everything the driver model leaves alone, apart from the two fields
\* initialized and bus of the driver object.
notDrv == << samplerVars, arithVars >>

\* Positions whose transfer names a register of user bank 2 (lines 51-60)
\* and of user bank 3 (lines 63-71); every other transfer names a register
\* of user bank 0 (lines 38-48).
Bank2Pcs == {"i_cfg_gdiv", "i_cfg_gcfg", "i_cfg_adiv", "i_cfg_acfg"}
Bank3Pcs == {"rs_addr", "rs_reg", "rs_ctrl", "rs_rd_ctrl", "rs_wr_ctrl",
             "ws_addr", "ws_reg", "ws_do", "ws_ctrl", "ws_rd_ctrl",
             "ws_wr_ctrl"}
HomeBank(pc) == IF pc \in Bank2Pcs THEN 2 ELSE IF pc \in Bank3Pcs THEN 3 ELSE 0

\* Control is inside initialize(), the secondary-bus routines it calls
\* included.
InInitialize ==
    \/ dpc \in InitPcs
    \/ dpc \in RsPcs \cup WsPcs /\ sret \in {"i_mag_checked", "i_ready"}

\* A bus transfer has completed at the current position: it is the last
\* one, it counts for this call, and it is appended to the histories of the
\* initialize() and of the secondary-bus routine it belongs to (a
\* secondary-bus routine starts its history with its first transfer).
Logged(op, reg, val) ==
    LET e == Transfer(op, HomeBank(dpc), bank, reg, val)
    IN  /\ xfer' = e
        /\ nx' = nx + 1
        /\ ilog' = IF InInitialize THEN Append(ilog, e) ELSE ilog
        /\ slog' = IF dpc \in {"rs_bank3", "ws_bank3"} THEN << e >>
                   ELSE IF dpc \in RsPcs \cup WsPcs THEN Append(slog, e)
                   ELSE slog

\* A bus transfer raises (OSError from smbus2, or AttributeError when
\* self.bus is None): the device is left as it was and control goes to the
\* innermost enclosing `except Exception`: the one of _check_magnetometer
\* (lines 233-234, which returns False, so initialize() goes on at line
\* 290), the one of initialize() (line 293) or the one of read() (line 495);
\* a direct call of _select_bank has no handler and raises to its caller.
BusError ==
    /\ UNCHANGED << devVars, secVars, cal, polls, rawVars, dret, cfgCalled,
                    pollLog, logVars, sel, handles >>
    /\ IF dpc \in RsPcs /\ sret = "i_mag_checked"
         THEN /\ dpc' = "i_ready"
              /\ chk' = [res |-> "error", data |-> << >>]
              /\ magDetected' = "no"
              /\ fault' = "mag_check"
       ELSE IF dpc \in InitPcs \cup WsPcs
         THEN /\ dpc' = "i_except" /\ fault' = "bus"
              /\ UNCHANGED << chk, magDetected >>
       ELSE IF dpc = "sb_write"
         THEN /\ dpc' = "sb_raised" /\ fault' = "bus"
              /\ UNCHANGED << chk, magDetected >>
       ELSE /\ dpc' = "r_except" /\ fault' = "bus"
            /\ UNCHANGED << chk, magDetected >>

\* self._write_byte(reg, value) at position `here`.
Write(here, next, reg, value) ==
    /\ dpc = here
    /\ \/ /\ imu_bus
          /\ DevWrite(reg, value)
          /\ Logged("write", reg, value)
          /\ dpc' = next
          /\ UNCHANGED << secVars, cal, polls, rawVars, dret, chkVars, sel,
                          handles >>
       \/ BusError
    /\ UNCHANGED << imuVars, notDrv >>

\* Faulty variant of SelectBank: the bank number is shifted by 3 bits.
SelectBank_Shift3(here, next, n) ==
    Write(here, next, REG_ADD_REG_BANK_SEL, n * 8)

\* self._select_bank(bank): self._write_byte(REG_ADD_REG_BANK_SEL, bank << 4).
SelectBank(here, next, n) ==
    Write(here, next, REG_ADD_REG_BANK_SEL, n * 16)

\* temp = self._read_byte(reg) at position `here`.
ReadTemp(here, next, reg) ==
    /\ dpc = here
    /\ \/ /\ imu_bus
          /\ \E b \in DevRead(reg) : temp' = b /\ Logged("read", reg, b)
          /\ dpc' = next
          /\ UNCHANGED << devVars, sret, sreg, slen, sdata, cal, polls,
                          rawVars, dret, chkVars, sel, handles >>
       \/ BusError
    /\ UNCHANGED << imuVars, notDrv >>

\* temp = <newtemp>; self._write_byte(reg, temp) at position `here`.
WriteTemp(here, next, reg, newtemp) ==
    /\ dpc = here
    /\ \/ /\ imu_bus
          /\ temp' = newtemp
          /\ DevWrite(reg, newtemp)
          /\ Logged("write", reg, newtemp)
          /\ dpc' = next
          /\ UNCHANGED << sret, sreg, slen, sdata, cal, polls, rawVars, dret,
                          chkVars, sel, handles >>
       \/ BusError
    /\ UNCHANGED << imuVars, notDrv >>

(***************************************************************************)
(* ICM20948._read_secondary(i2c_addr, reg_addr, length); i2c_addr is       *)
(* I2C_ADD_ICM20948_AK09916 | I2C_ADD_ICM20948_AK09916_READ at every call. *)
(***************************************************************************)

\* The call: control enters _read_secondary and will return to `ret`.
CallReadSecondary(ret, mreg, length) ==
    /\ dpc' = "rs_bank3"
    /\ sret' = ret /\ sreg' = mreg /\ slen' = length /\ sdata' = << >>
    /\ UNCHANGED temp

\* Lines 164-167.
RS_Bank3 == SelectBank("rs_bank3", "rs_addr", 3)
RS_Addr ==
    Write("rs_addr", "rs_reg", REG_ADD_I2C_SLV0_ADDR,
          BitOr(I2C_ADD_ICM20948_AK09916, I2C_ADD_ICM20948_AK09916_READ))
RS_Reg == Write("rs_reg", "rs_ctrl", REG_ADD_I2C_SLV0_REG, sreg)
RS_Ctrl ==
    Write("rs_ctrl", "rs_bank0", REG_ADD_I2C_SLV0_CTRL,
          BitOr(REG_VAL_BIT_SLV0_EN, slen))

\* Lines 169-175.
RS_Bank0 == SelectBank("rs_bank0", "rs_rd_uc", 0)
RS_ReadUserCtrl == ReadTemp("rs_rd_uc", "rs_set_en", REG_ADD_USER_CTRL)
RS_MasterEnable ==
    WriteTemp("rs_set_en", "rs_sleep", REG_ADD_USER_CTRL,
              BitOr(temp, REG_VAL_BIT_I2C_MST_EN))
RS_Sleep ==
    /\ dpc = "rs_sleep"
    /\ dpc' = "rs_clr_en"
    /\ MasterRuns
    /\ UNCHANGED << secVars, cal, polls, rawVars, dret, histVars,
                    imuVars, notDrv >>
RS_MasterDisable ==
    WriteTemp("rs_clr_en", "rs_data", REG_ADD_USER_CTRL,
              BitAndNot(temp, REG_VAL_BIT_I2C_MST_EN))

\* Lines 177-179: one pass of `for i in range(length)`.
RS_Data ==
    /\ dpc = "rs_data"
    /\ \/ /\ imu_bus
          /\ \E b \in DevRead(REG_ADD_EXT_SENS_DATA_00 + Len(sdata)) :
                 /\ sdata' = Append(sdata, b)
                 /\ Logged("read", REG_ADD_EXT_SENS_DATA_00 + Len(sdata), b)
          /\ dpc' = IF Len(sdata) + 1 = slen THEN "rs_bank3b" ELSE "rs_data"
          /\ UNCHANGED << devVars, temp, sret, sreg, slen, cal, polls,
                          rawVars, dret, chkVars, sel, handles >>
       \/ BusError
    /\ UNCHANGED << imuVars, notDrv >>

\* Lines 181-187; the last transfer done, control returns to the caller.
RS_Bank3b == SelectBank("rs_bank3b", "rs_rd_ctrl", 3)
RS_ReadCtrl == ReadTemp("rs_rd_ctrl", "rs_wr_ctrl", REG_ADD_I2C_SLV0_CTRL)
RS_WriteCtrl ==
    WriteTemp("rs_wr_ctrl", "rs_bank0b", REG_ADD_I2C_SLV0_CTRL,
              BitAndNot(temp, BitAnd(REG_VAL_BIT_I2C_MST_EN,
                                     REG_VAL_BIT_MASK_LEN)))
RS_Bank0b == SelectBank("rs_bank0b", sret, 0)

ReadSecondary ==
    \/ RS_Bank3 \/ RS_Addr \/ RS_Reg \/ RS_Ctrl \/ RS_Bank0
    \/ RS_ReadUserCtrl \/ RS_MasterEnable \/ RS_Sleep \/ RS_MasterDisable
    \/ RS_Data \/ RS_Bank3b \/ RS_ReadCtrl \/ RS_WriteCtrl \/ RS_Bank0b

(***************************************************************************)
(* ICM20948._write_secondary(i2c_addr, reg_addr, data); its one call       *)
(* passes I2C_ADD_ICM20948_AK09916 | I2C_ADD_ICM20948_AK09916_WRITE,       *)
(* REG_ADD_MAG_CNTL2 and REG_VAL_MAG_MODE_20HZ.                            *)
(***************************************************************************)

\* The call: control enters _write_secondary and will return to `ret`.
CallWriteSecondary(ret, mreg) ==
    /\ dpc' = "ws_bank3"
    /\ sret' = ret /\ sreg' = mreg
    /\ UNCHANGED << temp, slen, sdata >>

\* Lines 191-195.
WS_Bank3 == SelectBank("ws_bank3", "ws_addr", 3)
WS_Addr ==
    Write("ws_addr", "ws_reg", REG_ADD_I2C_SLV1_ADDR,
          BitOr(I2C_ADD_ICM20948_AK09916, I2C_ADD_ICM20948_AK09916_WRITE))
WS_Reg == Write("ws_reg", "ws_do", REG_ADD_I2C_SLV1_REG, sreg)
WS_Do == Write("ws_do", "ws_ctrl", REG_ADD_I2C_SLV1_DO, REG_VAL_MAG_MODE_20HZ)
WS_Ctrl ==
    Write("ws_ctrl", "ws_bank0", REG_ADD_I2C_SLV1_CTRL,
          BitOr(REG_VAL_BIT_SLV0_EN, 1))

\* Lines 197-203.
WS_Bank0 == SelectBank("ws_bank0", "ws_rd_uc", 0)
WS_ReadUserCtrl == ReadTemp("ws_rd_uc", "ws_set_en", REG_ADD_USER_CTRL)
WS_MasterEnable ==
    WriteTemp("ws_set_en", "ws_sleep", REG_ADD_USER_CTRL,
              BitOr(temp, REG_VAL_BIT_I2C_MST_EN))
WS_Sleep ==
    /\ dpc = "ws_sleep"
    /\ dpc' = "ws_clr_en"
    /\ MasterRuns
    /\ UNCHANGED << secVars, cal, polls, rawVars, dret, histVars,
                    imuVars, notDrv >>
WS_MasterDisable ==
    WriteTemp("ws_clr_en", "ws_bank3b", REG_ADD_USER_CTRL,
              BitAndNot(temp, REG_VAL_BIT_I2C_MST_EN))

\* Lines 205-209; the last transfer done, control returns to the caller.
WS_Bank3b == SelectBank("ws_bank3b", "ws_rd_ctrl", 3)
WS_ReadCtrl == ReadTemp("ws_rd_ctrl", "ws_wr_ctrl", REG_ADD_I2C_SLV0_CTRL)
WS_WriteCtrl ==
    WriteTemp("ws_wr_ctrl", "ws_bank0b", REG_ADD_I2C_SLV0_CTRL,
              BitAndNot(temp, BitAnd(REG_VAL_BIT_I2C_MST_EN,
                                     REG_VAL_BIT_MASK_LEN)))
WS_Bank0b == SelectBank("ws_bank0b", sret, 0)

WriteSecondary ==
    \/ WS_Bank3 \/ WS_Addr \/ WS_Reg \/ WS_Do \/ WS_Ctrl \/ WS_Bank0
    \/ WS_ReadUserCtrl \/ WS_MasterEnable \/ WS_Sleep \/ WS_MasterDisable
    \/ WS_Bank3b \/ WS_ReadCtrl \/ WS_WriteCtrl \/ WS_Bank0b

(***************************************************************************)
(* ICM20948.initialize()                                                   *)
(***************************************************************************)

\* Bank-2 register addresses and values of the gyro/accel configuration.
REG_ADD_GYRO_SMPLRT_DIV == 0
REG_ADD_GYRO_CONFIG_1 == 1
REG_VAL_BIT_GYRO_DLPCFG_6 == 48
REG_VAL_BIT_GYRO_FS_1000DPS == 4
REG_VAL_BIT_GYRO_DLPF == 1
REG_ADD_ACCEL_SMPLRT_DIV_2 == 17
REG_ADD_ACCEL_CONFIG == 20
REG_VAL_BIT_ACCEL_DLPCFG_6 == 48
REG_VAL_BIT_ACCEL_FS_2g == 0
REG_VAL_BIT_ACCEL_DLPF == 1

\* The value returned by the driver call that ended last.
Returned(op, kind, g, a, m) ==
    [op |-> op, kind |-> kind, g |-> g, a |-> a, m |-> m]

\* A call starts with fresh locals and nothing returned yet; the histories
\* of a call start empty.
FreshCall ==
    /\ temp' = 0 /\ sret' = "none" /\ sreg' = 0 /\ slen' = 0
    /\ sdata' = << >>
    /\ cal' = 0 /\ polls' = 0
    /\ graw' = << >> /\ araw' = << >> /\ mraw' = << >>
    /\ dret' = Returned("none", "none", << >>, << >>, << >>)
    /\ chk' = [res |-> "none", data |-> << >>]
    /\ cfgCalled' = FALSE /\ fault' = "none" /\ pollLog' = << >>
    /\ xfer' = NoTransfer /\ nx' = 0 /\ ilog' = << >> /\ slog' = << >>

\* The thread calls initialize(); calls that could open more than
\* MaxHandles handles are not followed.
DrvCallInitialize ==
    /\ dpc = "idle"
    /\ handles < MaxHandles
    /\ dpc' = "i_open"
    /\ FreshCall
    /\ UNCHANGED << devVars, magDetected, sel, handles, imuVars, notDrv >>

\* Line 256: self.bus = smbus2.SMBus(self.i2c_bus); it may raise, and then
\* self.bus keeps its value.
I_Open ==
    /\ dpc = "i_open"
    /\ \/ /\ imu_bus' = TRUE
          /\ handles' = handles + 1
          /\ dpc' = "i_wia"
          /\ UNCHANGED fault
       \/ /\ imu_bus' = imu_bus
          /\ dpc' = "i_except"
          /\ fault' = "bus"
          /\ UNCHANGED handles
    /\ UNCHANGED << devVars, secVars, cal, polls, rawVars, dret, chk,
                    magDetected, cfgCalled, pollLog, logVars, sel,
                    imu_initialized, notDrv >>

\* Line 258, _check_device: wia = self._read_byte(REG_ADD_WIA); return
\* wia == REG_VAL_WIA; its own handler turns an I/O error into False.
I_CheckDevice ==
    /\ dpc = "i_wia"
    /\ \/ /\ imu_bus
          /\ \E wia \in DevRead(REG_ADD_WIA) :
                /\ Logged("read", REG_ADD_WIA, wia)
                /\ IF wia = REG_VAL_WIA
                     THEN dpc' = "i_rst_bank" /\ UNCHANGED fault
                     ELSE dpc' = "i_not_found" /\ fault' = "no_device"
       \/ /\ dpc' = "i_not_found"
          /\ fault' = "no_device"
          /\ UNCHANGED logVars
    /\ UNCHANGED << devVars, secVars, cal, polls, rawVars, dret, chk,
                    magDetected, cfgCalled, pollLog, sel, handles, imuVars,
                    notDrv >>

\* Lines 259-260: print(...); return False.
I_NotFound ==
    /\ dpc = "i_not_found"
    /\ dpc' = "idle"
    /\ dret' = Returned("initialize", "false", << >>, << >>, << >>)
    /\ UNCHANGED << devVars, secVars, cal, polls, rawVars, histVars,
                    imuVars, notDrv >>

\* Faulty variant of I_Reset: the run-mode bit is written first.
I_Reset_RunFirst ==
    Write("i_rst", "i_run", REG_ADD_PWR_MIGMT_1, REG_VAL_RUN_MODE)

\* Lines 263-266: reset, sleep, run mode.
I_RstBank == SelectBank("i_rst_bank", "i_rst", 0)
I_Reset ==
    Write("i_rst", "i_run", REG_ADD_PWR_MIGMT_1, REG_VAL_ALL_RGE_RESET)
I_Run == Write("i_run", "i_cfg_bank", REG_ADD_PWR_MIGMT_1, REG_VAL_RUN_MODE)

\* Lines 269-278: the four configuration registers of bank 2.
I_CfgBank == SelectBank("i_cfg_bank", "i_cfg_gdiv", 2)
I_CfgGyroDiv ==
    Write("i_cfg_gdiv", "i_cfg_gcfg", REG_ADD_GYRO_SMPLRT_DIV, 7)
I_CfgGyro ==
    Write("i_cfg_gcfg", "i_cfg_adiv", REG_ADD_GYRO_CONFIG_1,
          BitOr(BitOr(REG_VAL_BIT_GYRO_DLPCFG_6, REG_VAL_BIT_GYRO_FS_1000DPS),
                REG_VAL_BIT_GYRO_DLPF))
I_CfgAccelDiv ==
    Write("i_cfg_adiv", "i_cfg_acfg", REG_ADD_ACCEL_SMPLRT_DIV_2, 7)
I_CfgAccel ==
    Write("i_cfg_acfg", "i_cfg_bank0", REG_ADD_ACCEL_CONFIG,
          BitOr(BitOr(REG_VAL_BIT_ACCEL_DLPCFG_6, REG_VAL_BIT_ACCEL_FS_2g),
                REG_VAL_BIT_ACCEL_DLPF))
I_CfgBank0 == SelectBank("i_cfg_bank0", "i_cal_start", 0)

\* Raw triples a block read of the gyro or accel data registers may decode
\* to.
RawSamples == {<< 1, -2, 3 >>, << -4, 5, -6 >>}

\* Faulty variant of CalLoopDone: one pass too many.
CalLoopDone_OneMore(n) == n = CalSamples + 1

\* `for _ in range(32)` of _calibrate_gyro ends after n passes.
CalLoopDone(n) == n = CalSamples

\* Line 281, _calibrate_gyro: sums = [0, 0, 0].
I_CalStart ==
    /\ dpc = "i_cal_start"
    /\ dpc' = "i_cal_bank"
    /\ cal' = 0
    /\ UNCHANGED << devVars, secVars, polls, rawVars, dret, histVars,
                    imuVars, notDrv >>

\* One pass of `for _ in range(32)`: _read_gyro_raw selects bank 0 and reads
\* the six data bytes in one block read; after the last pass
\* self.gyro_offset is assigned.
I_CalBank == SelectBank("i_cal_bank", "i_cal_read", 0)
I_CalRead ==
    /\ dpc = "i_cal_read"
    /\ \/ /\ imu_bus
          /\ cal' = cal + 1
          /\ dpc' = IF CalLoopDone(cal + 1) THEN "i_mag_check"
                                           ELSE "i_cal_bank"
          /\ Logged("block", REG_ADD_GYRO_XOUT_H, 0)
          /\ UNCHANGED << devVars, secVars, polls, rawVars, dret, chkVars,
                          sel, handles >>
       \/ BusError
    /\ UNCHANGED << imuVars, notDrv >>

\* Line 284, _check_magnetometer: data = self._read_secondary(..., 2).
I_MagCheck ==
    /\ dpc = "i_mag_check"
    /\ CallReadSecondary("i_mag_checked", REG_ADD_MAG_WIA1, 2)
    /\ UNCHANGED << devVars, cal, polls, rawVars, dret, histVars,
                    imuVars, notDrv >>

\* Faulty variant of MagWiaMatch: only the first who-am-I byte is compared.
MagWiaMatch_FirstByte(data) ==
    data[1] = REG_VAL_MAG_WIA1

\* Line 232: data[0] == REG_VAL_MAG_WIA1 and data[1] == REG_VAL_MAG_WIA2.
MagWiaMatch(data) ==
    data[1] = REG_VAL_MAG_WIA1 /\ data[2] = REG_VAL_MAG_WIA2

\* Lines 284-288: _check_magnetometer returns the comparison; if it is True
\* initialize() calls _write_secondary, else it goes on at line 290.
I_MagChecked ==
    /\ dpc = "i_mag_checked"
    /\ chk' = [res |-> "read", data |-> sdata]
    /\ IF MagWiaMatch(sdata)
         THEN /\ CallWriteSecondary("i_ready", REG_ADD_MAG_CNTL2)
              /\ magDetected' = "yes"
              /\ cfgCalled' = TRUE
         ELSE /\ dpc' = "i_ready"
              /\ magDetected' = "no"
              /\ UNCHANGED << secVars, cfgCalled >>
    /\ UNCHANGED << devVars, cal, polls, rawVars, dret, fault, pollLog,
                    logVars, sel, handles, imuVars, notDrv >>

\* Lines 290-291: self.initialized = True; return True.
I_Ready ==
    /\ dpc = "i_ready"
    /\ imu_initialized' = TRUE
    /\ dpc' = "idle"
    /\ dret' = Returned("initialize", "true", << >>, << >>, << >>)
    /\ UNCHANGED << devVars, secVars, cal, polls, rawVars, histVars,
                    imu_bus, notDrv >>

\* Lines 293-295: except Exception: print(...); return False.
I_Except ==
    /\ dpc = "i_except"
    /\ dpc' = "idle"
    /\ dret' = Returned("initialize", "false", << >>, << >>, << >>)
    /\ UNCHANGED << devVars, secVars, cal, polls, rawVars, histVars,
                    imuVars, notDrv >>

Initialize ==
    \/ I_Open \/ I_CheckDevice \/ I_NotFound \/ I_RstBank \/ I_Reset
    \/ I_Run \/ I_CfgBank \/ I_CfgGyroDiv \/ I_CfgGyro \/ I_CfgAccelDiv
    \/ I_CfgAccel \/ I_CfgBank0 \/ I_CalStart \/ I_CalBank \/ I_CalRead
    \/ I_MagCheck \/ I_MagChecked \/ I_Ready \/ I_Except

(***************************************************************************)
(* ICM20948.read() and ICM20948.close()                                    *)
(***************************************************************************)

\* (hi << 8) | lo of the raw reads.
Word16(hi, lo) == BitOr(hi * 256, lo)

\* Faulty variant of Signed16: the threshold is off by one.
Signed16_OffByOne(v) == IF v > 32768 THEN v - 65536 ELSE v

\* The conversion "if v > 32767: v -= 65536" of the raw reads.
Signed16(v) == IF v > 32767 THEN v - 65536 ELSE v

\* The thread calls read().
DrvCallRead ==
    /\ dpc = "idle"
    /\ dpc' = "r_enter"
    /\ FreshCall
    /\ UNCHANGED << devVars, magDetected, sel, handles, imuVars, notDrv >>

\* Lines 433-436: an uninitialized driver returns the defaults at once;
\* else `with self._lock`, which this one thread always gets.
R_Enter ==
    /\ dpc = "r_enter"
    /\ IF ~imu_initialized
         THEN /\ dpc' = "idle"
              /\ dret' = Returned("read", "uninitialized",
                                  << >>, << >>, << >>)
         ELSE /\ dpc' = "rg_bank"
              /\ UNCHANGED dret
    /\ UNCHANGED << devVars, secVars, cal, polls, rawVars, histVars,
                    imuVars, notDrv >>

\* Line 439, _read_gyro_raw: bank 0, block read, decode.
R_GyroBank == SelectBank("rg_bank", "rg_read", 0)
R_GyroRead ==
    /\ dpc = "rg_read"
    /\ \/ /\ imu_bus
          /\ \E g \in RawSamples : graw' = g
          /\ Logged("block", REG_ADD_GYRO_XOUT_H, 0)
          /\ dpc' = "ra_bank"
          /\ UNCHANGED << devVars, secVars, cal, polls, araw, mraw, dret,
                          chkVars, sel, handles >>
       \/ BusError
    /\ UNCHANGED << imuVars, notDrv >>

\* Line 440, _read_accel_raw: bank 0, block read, decode.
R_AccelBank == SelectBank("ra_bank", "ra_read", 0)
R_AccelRead ==
    /\ dpc = "ra_read"
    /\ \/ /\ imu_bus
          /\ \E a \in RawSamples : araw' = a
          /\ Logged("block", REG_ADD_ACCEL_XOUT_H, 0)
          /\ dpc' = "rm_start"
          /\ UNCHANGED << devVars, secVars, cal, polls, graw, mraw, dret,
                          chkVars, sel, handles >>
       \/ BusError
    /\ UNCHANGED << imuVars, notDrv >>

\* Line 441, _read_mag_raw is entered: `for _ in range(20)` starts.
R_MagStart ==
    /\ dpc = "rm_start"
    /\ dpc' = "rm_poll"
    /\ polls' = 0
    /\ UNCHANGED << devVars, secVars, cal, rawVars, dret, histVars,
                    imuVars, notDrv >>

\* Lines 333-337: time.sleep(0.01); data = self._read_secondary(..ST2, 1).
R_MagPoll ==
    /\ dpc = "rm_poll"
    /\ CallReadSecondary("rm_polled", REG_ADD_MAG_ST2, 1)
    /\ UNCHANGED << devVars, cal, polls, rawVars, dret, histVars,
                    imuVars, notDrv >>

\* Line 338: data[0] & 0x01.
DataReady(data) == BitAnd(data[1], 1) # 0

\* Faulty variant of LastPoll: the loop is not bounded.
LastPoll_Never(n) == FALSE

\* The pass of the loop that ends the loop when it ends without `break`.
LastPoll(n) == n + 1 = MagPolls

\* Lines 338-341: `break` on data ready; else the next pass, or after the
\* last pass the `else` clause of the loop: return 0, 0, 0.
R_MagPolled ==
    /\ dpc = "rm_polled"
    /\ pollLog' = Append(pollLog, BitAnd(sdata[1], 1) # 0)
    /\ IF DataReady(sdata)
         THEN /\ dpc' = "rm_fetch"
              /\ UNCHANGED << polls, mraw >>
         ELSE /\ polls' = polls + 1
              /\ IF LastPoll(polls)
                   THEN dpc' = "r_filter" /\ mraw' = << 0, 0, 0 >>
                   ELSE dpc' = "rm_poll" /\ UNCHANGED mraw
    /\ UNCHANGED << devVars, secVars, cal, graw, araw, dret, chk,
                    magDetected, cfgCalled, fault, logVars, sel, handles,
                    imuVars, notDrv >>

\* Lines 343-346: data = self._read_secondary(..REG_ADD_MAG_DATA, 6).
R_MagFetch ==
    /\ dpc = "rm_fetch"
    /\ CallReadSecondary("rm_data", REG_ADD_MAG_DATA, MAG_DATA_LEN)
    /\ UNCHANGED << devVars, cal, polls, rawVars, dret, histVars,
                    imuVars, notDrv >>

\* Lines 348-357: low byte first, signed, y and z negated.
R_MagData ==
    /\ dpc = "rm_data"
    /\ LET mx == Signed16(Word16(sdata[2], sdata[1]))
           my == Signed16(Word16(sdata[4], sdata[3]))
           mz == Signed16(Word16(sdata[6], sdata[5]))
       IN  mraw' = << mx, -my, -mz >>
    /\ dpc' = "r_filter"
    /\ UNCHANGED << devVars, secVars, cal, polls, graw, araw, dret,
                    histVars, imuVars, notDrv >>

\* Lines 443-493: averaging, AHRS update and unit conversion of this
\* cycle's three raw triples; return the four values computed from them.
R_Filter ==
    /\ dpc = "r_filter"
    /\ dpc' = "idle"
    /\ dret' = Returned("read", "sample", graw, araw, mraw)
    /\ UNCHANGED << devVars, secVars, cal, polls, rawVars, histVars,
                    imuVars, notDrv >>

\* Lines 495-497: except Exception: print(...); return the defaults.
R_Except ==
    /\ dpc = "r_except"
    /\ dpc' = "idle"
    /\ dret' = Returned("read", "error", << >>, << >>, << >>)
    /\ UNCHANGED << devVars, secVars, cal, polls, rawVars, histVars,
                    imuVars, notDrv >>

Read ==
    \/ R_Enter \/ R_GyroBank \/ R_GyroRead \/ R_AccelBank \/ R_AccelRead
    \/ R_MagStart \/ R_MagPoll \/ R_MagPolled \/ R_MagFetch \/ R_MagData
    \/ R_Filter \/ R_Except

\* The thread calls close().
DrvClose ==
    /\ dpc = "idle"
    /\ close
    /\ handles' = IF imu_bus THEN handles - 1 ELSE handles
    /\ dret' = Returned("close", "none", << >>, << >>, << >>)
    /\ UNCHANGED << dpc, devVars, secVars, cal, polls, rawVars, chkVars,
                    logVars, sel, notDrv >>

DriverNext ==
    \/ DrvCallInitialize \/ Initialize
    \/ DrvCallRead \/ Read
    \/ DrvClose
    \/ ReadSecondary \/ WriteSecondary

DriverSpec == Init /\ [][DriverNext]_vars

(***************************************************************************)
(* ICM20948._select_bank(bank) called on its own                           *)
(*                                                                         *)
(* Between the calls of initialize(), read() and close() the thread may    *)
(* also call _select_bank(n) for any n in 0..3, whatever state the calls   *)
(* before have left the device in.                                         *)
(***************************************************************************)

\* The thread calls _select_bank(n).
DrvCallSelectBank ==
    /\ dpc = "idle"
    /\ dpc' = "sb_write"
    /\ \E n \in 0..3 : sel' = n
    /\ FreshCall
    /\ UNCHANGED << devVars, magDetected, handles, imuVars, notDrv >>

\* Line 160: the one statement of _select_bank.
SB_Write == SelectBank("sb_write", "sb_done", sel)

\* _select_bank returns None.
SB_Done ==
    /\ dpc = "sb_done"
    /\ dpc' = "idle"
    /\ sel' = 0
    /\ dret' = Returned("select_bank", "none", << >>, << >>, << >>)
    /\ UNCHANGED << devVars, secVars, cal, polls, rawVars, chkVars, logVars,
                    handles, imuVars, notDrv >>

\* The write raised; the exception leaves _select_bank.
SB_Raised ==
    /\ dpc = "sb_raised"
    /\ dpc' = "idle"
    /\ sel' = 0
    /\ dret' = Returned("select_bank", "error", << >>, << >>, << >>)
    /\ UNCHANGED << devVars, secVars, cal, polls, rawVars, chkVars, logVars,
                    handles, imuVars, notDrv >>

BankNext ==
    \/ DriverNext
    \/ DrvCallSelectBank \/ SB_Write \/ SB_Done \/ SB_Raised

BankSpec == Init /\ [][BankNext]_vars

(***************************************************************************)
(* The raw reads _read_gyro_raw and _read_accel_raw as functions of the    *)
(* six bytes the block read returns                                        *)
(***************************************************************************)

\* Bytes of a block read: the ends and the middle of the byte range.
DecodeBytes == {0, 1, 127, 128, 255}

\* Lines 302-311 (gyro) and 318-327 (accel): high byte first, then signed.
DecodeTriple(data) ==
    << Signed16(Word16(data[1], data[2])),
       Signed16(Word16(data[3], data[4])),
       Signed16(Word16(data[5], data[6])) >>

\* Everything the raw read model leaves alone.
notDec == << samplerVars, imuVars, drvVars, gyro_offset, calVars,
            avgVars, ahrsVars, cycVars >>

\* The device holds any six bytes in the data registers the raw read is
\* about to fetch.
DecodeInit ==
    /\ SamplerInit
    /\ DrvIdle
    /\ CalIdle
    /\ AvgIdle
    /\ AhrsIdle
    /\ CycIdle
    /\ rawsrc = "none"
    /\ rawdata \in [1..6 -> DecodeBytes]
    /\ rawdec = << >>

\* _read_gyro_raw: the block read returns the six bytes; they are decoded
\* and the triple is returned.
ReadGyroRaw ==
    /\ rawsrc = "none"
    /\ rawsrc' = "gyro"
    /\ rawdec' = DecodeTriple(rawdata)
    /\ UNCHANGED << rawdata, notDec >>

\* _read_accel_raw: the same with the accel data registers.
ReadAccelRaw ==
    /\ rawsrc = "none"
    /\ rawsrc' = "accel"
    /\ rawdec' = DecodeTriple(rawdata)
    /\ UNCHANGED << rawdata, notDec >>

DecodeNext == ReadGyroRaw \/ ReadAccelRaw

DecodeSpec == DecodeInit /\ [][DecodeNext]_vars

(***************************************************************************)
(* _calibrate_gyro as a function of the raw gyro triples it reads          *)
(***************************************************************************)

\* Python's x >> n on integers of either sign: n halvings, each rounding
\* towards minus infinity.
RECURSIVE Shr(_, _)
Shr(x, n) == IF n = 0 THEN x ELSE Shr(x \div 2, n - 1)

\* Raw gyro triples a pass of the calibration may read: the ends of the
\* signed 16-bit range, small values of either sign, zero.
CalTriples == {<< -32768, -1, 32767 >>, << 0, 1, -2 >>, << 32767, -32768, 5 >>}

\* Everything the calibration model leaves alone.
notCal == << samplerVars, imuVars, drvVars, decVars, avgVars, ahrsVars,
            cycVars >>

\* Line 238: sums = [0, 0, 0].
CalStart ==
    /\ cstage = "idle"
    /\ cstage' = "loop"
    /\ csums' = << 0, 0, 0 >>
    /\ cpass' = 0
    /\ cseen' = {}
    /\ UNCHANGED << gyro_offset, notCal >>

\* Lines 239-244: one pass of the loop reads a raw triple and adds it.
CalPass ==
    /\ cstage = "loop"
    /\ ~CalLoopDone(cpass)
    /\ \E g \in CalTriples :
          /\ csums' = << csums[1] + g[1], csums[2] + g[2], csums[3] + g[3] >>
          /\ cseen' = cseen \cup {g}
    /\ cpass' = cpass + 1
    /\ UNCHANGED << cstage, gyro_offset, notCal >>

\* Line 246: self.gyro_offset = [s >> 5 for s in sums].
CalAssign ==
    /\ cstage = "loop"
    /\ CalLoopDone(cpass)
    /\ gyro_offset' = << Shr(csums[1], 5), Shr(csums[2], 5), Shr(csums[3], 5) >>
    /\ cstage' = "done"
    /\ UNCHANGED << csums, cpass, cseen, notCal >>

CalibNext == CalStart \/ CalPass \/ CalAssign

CalibSpec == Init /\ [][CalibNext]_vars

(***************************************************************************)
(* The gyro path of read(): averaging ring, offset, unit conversion        *)
(***************************************************************************)

\* Python's sum() of a list.
RECURSIVE Sum(_)
Sum(seq) == IF seq = << >> THEN 0 ELSE Head(seq) + Sum(Tail(seq))

\* _calc_avg, line 213: avg_buffer[axis][idx_list[axis]] = in_val.
CalcAvgStore(avg_buffer, idx_list, axis, in_val) ==
    [avg_buffer EXCEPT ![axis][idx_list[axis] + 1] = in_val]

\* Faulty variant of CalcAvgAdvance: the index is not wrapped.
CalcAvgAdvance_NoWrap(idx_list, axis) ==
    [idx_list EXCEPT ![axis] = idx_list[axis] + 1]

\* _calc_avg, line 214: idx_list[axis] = (idx_list[axis] + 1) & 0x07.
CalcAvgAdvance(idx_list, axis) ==
    [idx_list EXCEPT ![axis] = BitAnd(idx_list[axis] + 1, 7)]

\* _calc_avg, line 215: return sum(avg_buffer[axis]) >> 3.
CalcAvgResult(avg_buffer, axis) == Shr(Sum(avg_buffer[axis]), 3)

\* Faulty variant of Corrected: the offset is not subtracted.
Corrected_NoOffset(avg, offset) == avg

\* Lines 444-446: the averaged count minus the calibration offset.
Corrected(avg, offset) == avg - offset

\* A quotient of two integers, for the values read() computes in floating
\* point.
Frac(n, d) == [n |-> n, d |-> d]

\* Lines 476-478: g / GYRO_SSF_AT_FS_1000DPS, that is g / 32.8 = 5g / 164.
ToDegPerSec(g) == Frac(5 * g, 164)

\* Lines 457-459: g / 32.8 * 0.0175 = 7g / 13120.
ToRadPerSec(g) == Frac(7 * g, 13120)

\* Offsets a calibration may have left, and raw gyro triples a cycle may
\* read.
AvgOffsets == {<< 0, 0, 0 >>, << -7, 12, 3 >>}
AvgTriples == CalTriples

\* Everything the model of the gyro path leaves alone.
notAvg == << samplerVars, imuVars, drvVars, decVars, calVars, ahrsVars,
            cycVars >>

\* The driver is initialized: the rings are as built and the calibration has
\* stored some offset.
AvgInit ==
    /\ SamplerInit
    /\ DrvIdle
    /\ DecIdle
    /\ cstage = "done" /\ csums = << 0, 0, 0 >> /\ cpass = 0 /\ cseen = {}
    /\ gyro_offset \in AvgOffsets
    /\ AvgIdle
    /\ AhrsIdle
    /\ CycIdle

\* Lines 444-446, 457-459 and 475-479, the gyro path of one cycle: the raw
\* triple g is pushed axis by axis into the rings, the offset is subtracted
\* from each average, and the two conversions are applied.
GyroPath(g) ==
    LET buf1 == CalcAvgStore(gyro_avg, gyro_idx, 1, g[1])
        idx1 == CalcAvgAdvance(gyro_idx, 1)
        buf2 == CalcAvgStore(buf1, idx1, 2, g[2])
        idx2 == CalcAvgAdvance(idx1, 2)
        buf3 == CalcAvgStore(buf2, idx2, 3, g[3])
        idx3 == CalcAvgAdvance(idx2, 3)
    IN  /\ gyro_avg' = buf3
        /\ gyro_idx' = idx3
        /\ lastavg' = << CalcAvgResult(buf1, 1), CalcAvgResult(buf2, 2),
                         CalcAvgResult(buf3, 3) >>
        /\ gxyz' = [i \in 1..3 |-> Corrected(lastavg'[i], gyro_offset[i])]
        /\ motion' = [i \in 1..3 |-> ToRadPerSec(gxyz'[i])]
        /\ gyro_data' = [i \in 1..3 |-> ToDegPerSec(gxyz'[i])]
        /\ pushed' = IF Len(pushed) = 8 THEN Append(Tail(pushed), g)
                                        ELSE Append(pushed, g)

\* One successful cycle of read(), gyro path.
AvgRead ==
    \E g \in AvgTriples :
       /\ GyroPath(g)
       /\ UNCHANGED << gyro_offset, notAvg >>

AvgNext == AvgRead

AvgSpec == AvgInit /\ [][AvgNext]_vars

(***************************************************************************)
(* _ahrs_update in fixed point                                             *)
(*                                                                         *)
(* Floats are integers at the scale ONE, every product is rounded down to  *)
(* that scale, and the square root is the integer square root.  The        *)
(* update is translated statement by statement.                            *)
(***************************************************************************)

\* x * y for two fixed-point values.
Mul(x, y) == (x * y) \div ONE

\* The largest r + k * bit (k in 0..1, then with bit halved, and so on)
\* whose square is at most n.
RECURSIVE ISqrtFrom(_, _, _)
ISqrtFrom(n, r, bit) ==
    IF bit = 0 THEN r
    ELSE LET t == r + bit
         IN  IF t <= n \div t THEN ISqrtFrom(n, t, bit \div 2)
             ELSE ISqrtFrom(n, r, bit \div 2)

\* The integer square root of n, for 0 <= n < 2^31.
ISqrt(n) == ISqrtFrom(n, 0, 32768)

\* math.sqrt(x).
Sqrt(x) == ISqrt(x * ONE)

\* _inv_sqrt(x): 0.0 if x <= 0, else 1.0 / math.sqrt(x).
InvSqrt(x) == IF x <= 0 THEN 0 ELSE (ONE * ONE) \div Sqrt(x)

\* self.Kp = 4.50 and halfT = 0.024.
Kp == (9 * ONE) \div 2
halfT == (24 * ONE) \div 1000


\* Lines 373-383: norm = _inv_sqrt(x*x + y*y + z*z); x *= norm; y *= norm;
\* z *= norm, for the integer triple v that read() passes.
Normalized(v) ==
    LET f == [i \in 1..3 |-> v[i] * ONE]
        norm == InvSqrt(Mul(f[1], f[1]) + Mul(f[2], f[2]) + Mul(f[3], f[3]))
    IN  [i \in 1..3 |-> Mul(f[i], norm)]

\* Lines 386-396: bx and bz from the quaternion and the normalised
\* magnetometer vector.
Reference(q, m) ==
    LET q0 == q[1]  q1 == q[2]  q2 == q[3]  q3 == q[4]
        half == ONE \div 2
        hx == Mul(2 * m[1], half - Mul(q2, q2) - Mul(q3, q3))
              + Mul(2 * m[2], Mul(q1, q2) - Mul(q0, q3))
              + Mul(2 * m[3], Mul(q1, q3) + Mul(q0, q2))
        hy == Mul(2 * m[1], Mul(q1, q2) + Mul(q0, q3))
              + Mul(2 * m[2], half - Mul(q1, q1) - Mul(q3, q3))
              + Mul(2 * m[3], Mul(q2, q3) - Mul(q0, q1))
        hz == Mul(2 * m[1], Mul(q1, q3) - Mul(q0, q2))
              + Mul(2 * m[2], Mul(q2, q3) + Mul(q0, q1))
              + Mul(2 * m[3], half - Mul(q1, q1) - Mul(q2, q2))
    IN  << Sqrt(Mul(hx, hx) + Mul(hy, hy)), hz >>

\* Lines 399-409: the estimated directions v and w, and the error e as the
\* sum of the two cross products.
Error(q, a, m, b) ==
    LET q0 == q[1]  q1 == q[2]  q2 == q[3]  q3 == q[4]
        half == ONE \div 2
        bx == b[1]
        bz == b[2]
        vx == 2 * (Mul(q1, q3) - Mul(q0, q2))
        vy == 2 * (Mul(q0, q1) + Mul(q2, q3))
        vz == Mul(q0, q0) - Mul(q1, q1) - Mul(q2, q2) + Mul(q3, q3)
        wx == Mul(2 * bx, half - Mul(q2, q2) - Mul(q3, q3))
              + Mul(2 * bz, Mul(q1, q3) - Mul(q0, q2))
        wy == Mul(2 * bx, Mul(q1, q2) - Mul(q0, q3))
              + Mul(2 * bz, Mul(q0, q1) + Mul(q2, q3))
        wz == Mul(2 * bx, Mul(q0, q2) + Mul(q1, q3))
              + Mul(2 * bz, half - Mul(q1, q1) - Mul(q2, q2))
    IN  << (Mul(a[2], vz) - Mul(a[3], vy)) + (Mul(m[2], wz) - Mul(m[3], wy)),
           (Mul(a[3], vx) - Mul(a[1], vz)) + (Mul(m[3], wx) - Mul(m[1], wz)),
           (Mul(a[1], vy) - Mul(a[2], vx)) + (Mul(m[1], wy) - Mul(m[2], wx)) >>

\* Lines 411-414: the error is fed back only if all three of its components
\* are non-zero.
CorrectedRate(g, e) ==
    IF e[1] # 0 /\ e[2] # 0 /\ e[3] # 0
    THEN [i \in 1..3 |-> g[i] + Mul(Kp, e[i])]
    ELSE g

\* Lines 417-420: the four += statements in their order; each uses the
\* components already updated by the statements before it.
Integrated(q, g) ==
    LET n0 == q[1] + Mul(- Mul(q[2], g[1]) - Mul(q[3], g[2]) - Mul(q[4], g[3]), halfT)
        n1 == q[2] + Mul(Mul(n0, g[1]) + Mul(q[3], g[3]) - Mul(q[4], g[2]), halfT)
        n2 == q[3] + Mul(Mul(n0, g[2]) - Mul(n1, g[3]) + Mul(q[4], g[1]), halfT)
        n3 == q[4] + Mul(Mul(n0, g[3]) + Mul(n1, g[2]) - Mul(n2, g[1]), halfT)
    IN  << n0, n1, n2, n3 >>

\* The stored quaternion without the normalisation of lines 423-424.
Renormalized_Skipped(q) == q

\* Lines 423-424: norm = _inv_sqrt(q0*q0 + q1*q1 + q2*q2 + q3*q3) and
\* self.q0..q3 = q0*norm .. q3*norm.
Renormalized(q) ==
    LET norm == InvSqrt(Mul(q[1], q[1]) + Mul(q[2], q[2]) + Mul(q[3], q[3])
                        + Mul(q[4], q[4]))
    IN  [i \in 1..4 |-> Mul(q[i], norm)]

\* Angular rates in rad/s (fixed point), and averaged raw accelerometer and
\* magnetometer triples, the zero vectors among them.
GyroRates == { << 0, 0, 0 >>, << ONE, 0, - ONE >>, << 2 * ONE, ONE, ONE \div 2 >> }
AccelSamples == { << 0, 0, 0 >>, << 0, 0, 1 >>, << 3, 4, 0 >>, << 1, -2, 2 >> }
MagSamples == { << 0, 0, 0 >>, << 2, -1, 2 >>, << 4, 0, -3 >> }

\* Everything the filter model leaves alone.
notAhrs == << samplerVars, imuVars, drvVars, decVars, gyro_offset, calVars,
             avgVars, cycVars >>

\* Lines 365-424, _ahrs_update(gx, gy, gz, ax, ay, az, mx, my, mz) with the
\* gyro rates gi and the accelerometer and magnetometer vectors ai, mi.
AhrsStep(gi, ai, mi) ==
    /\ anorm' = Normalized(ai)
    /\ mnorm' = Normalized(mi)
    /\ bxz' = Reference(quat, mnorm')
    /\ exyz' = Error(quat, anorm', mnorm', bxz')
    /\ gcorr' = CorrectedRate(gi, exyz')
    /\ qloc' = Integrated(quat, gcorr')
    /\ quat' = Renormalized(qloc')
    /\ updates' = updates + 1

\* One call of _ahrs_update on any of the sample inputs.
AhrsUpdate ==
    /\ updates < MaxUpdates
    /\ \E gi \in GyroRates, ai \in AccelSamples, mi \in MagSamples :
          /\ AhrsStep(gi, ai, mi)
          /\ UNCHANGED notAhrs

AhrsNext == AhrsUpdate

AhrsSpec == Init /\ [][AhrsNext]_vars

(***************************************************************************)
(* The filter state across the calls of the driver                         *)
(*                                                                         *)
(* One thread calls initialize(), read() and close().  A raw read is one   *)
(* step that returns a triple or raises; the filter part of read() is the  *)
(* nine _calc_avg calls, the conversions and _ahrs_update, computed as in  *)
(* the sections above.                                                     *)
(***************************************************************************)

\* Lines 448-450 (452-454): three _calc_avg calls of one sensor on its
\* rings, the raw triple v pushed axis by axis; the rings, the indices and
\* the three averages after them.
CalcAvg3(avg_buffer, idx_list, v) ==
    LET buf1 == CalcAvgStore(avg_buffer, idx_list, 1, v[1])
        idx1 == CalcAvgAdvance(idx_list, 1)
        buf2 == CalcAvgStore(buf1, idx1, 2, v[2])
        idx2 == CalcAvgAdvance(idx1, 2)
        buf3 == CalcAvgStore(buf2, idx2, 3, v[3])
        idx3 == CalcAvgAdvance(idx2, 3)
    IN  [buf |-> buf3, idx |-> idx3,
         avg |-> << CalcAvgResult(buf1, 1), CalcAvgResult(buf2, 2),
                    CalcAvgResult(buf3, 3) >>]

\* A quotient as a fixed-point value.
Fixed(f) == (f.n * ONE) \div f.d

\* Line 470: the argument of math.asin, -2*q1*q3 + 2*q0*q2; asin raises
\* outside [-1, 1].
SinPitch(q) == 2 * Mul(q[1], q[3]) - 2 * Mul(q[2], q[4])
AsinDefined(x) == - ONE <= x /\ x <= ONE

\* The filter state of the driver: the nine rings and their indices, the
\* gyro offset and the quaternion.
FilterState == << gyro_avg, gyro_idx, accel_avg, accel_idx, mag_avg, mag_idx,
                  gyro_offset, quat >>

\* Raw triples the three raw reads may return; the magnetometer read returns
\* zeros when the data-ready polling gives up.
CycGyro == {<< 0, 0, 0 >>, << 8000, -4000, 2000 >>}
CycAccel == {<< 0, 0, 8 >>, << 8, -8, 16 >>}
CycMag == {<< 0, 0, 0 >>, << 16, 0, -8 >>}

\* What a call in this model leaves alone besides the filter state.
cycFrame == << samplerVars, devVars, secVars, cal, polls, histVars, decVars,
               calVars >>
filterVars == << avgVars, ahrsVars, accel_avg, accel_idx, mag_avg, mag_idx,
                 axyz, mxyz >>

\* initialize(), lines 255-295, by its outcome: the bus does not open; an
\* error or a wrong who-am-I before the calibration has stored its offset;
\* an I/O error after it; success.
CycInitialize ==
    /\ dpc = "idle"
    /\ \E outcome \in {"no_bus", "early", "late", "true"},
          offset \in AvgOffsets :
          /\ imu_bus' = (imu_bus \/ outcome # "no_bus")
          /\ imu_initialized' = (imu_initialized \/ outcome = "true")
          /\ gyro_offset' = IF outcome \in {"late", "true"} THEN offset
                            ELSE gyro_offset
          /\ dret' = Returned("initialize",
                              IF outcome = "true" THEN "true" ELSE "false",
                              << >>, << >>, << >>)
    /\ UNCHANGED << dpc, rawVars, entry, filterVars, cycFrame >>

\* Faulty variant of CycClose: close() also resets the quaternion.
CycClose_ResetsQuaternion ==
    /\ dpc = "idle"
    /\ imu_bus' = FALSE
    /\ imu_initialized' = FALSE
    /\ quat' = << ONE, 0, 0, 0 >>
    /\ dret' = Returned("close", "none", << >>, << >>, << >>)
    /\ UNCHANGED << dpc, rawVars, entry, gyro_offset, avgVars, anorm, mnorm,
                    bxz, exyz, gcorr, qloc, updates, accel_avg, accel_idx,
                    mag_avg, mag_idx, axyz, mxyz, cycFrame >>

\* close(), lines 499-504.
CycClose ==
    /\ dpc = "idle"
    /\ imu_bus' = FALSE
    /\ imu_initialized' = FALSE
    /\ dret' = Returned("close", "none", << >>, << >>, << >>)
    /\ UNCHANGED << dpc, rawVars, entry, gyro_offset, filterVars, cycFrame >>

\* read(), lines 433-436: an uninitialized driver returns the defaults at
\* once; else the cycle starts with the raw reads.
CycReadCall ==
    /\ dpc = "idle"
    /\ updates < MaxCycles
    /\ entry' = FilterState
    /\ IF ~imu_initialized
         THEN /\ dpc' = "idle"
              /\ dret' = Returned("read", "uninitialized",
                                  << >>, << >>, << >>)
         ELSE /\ dpc' = "cyc_gyro"
              /\ dret' = Returned("none", "none", << >>, << >>, << >>)
    /\ UNCHANGED << imuVars, rawVars, gyro_offset, filterVars, cycFrame >>

\* Faulty variant of CycGyroRaw: the gyro triple is pushed into its rings as
\* soon as it is read.
CycGyroRaw_PushesAtOnce ==
    /\ dpc = "cyc_gyro"
    /\ \/ /\ \E g \in CycGyro :
               /\ graw' = g
               /\ gyro_avg' = CalcAvg3(gyro_avg, gyro_idx, g).buf
               /\ gyro_idx' = CalcAvg3(gyro_avg, gyro_idx, g).idx
          /\ dpc' = "cyc_accel"
       \/ /\ dpc' = "cyc_except"
          /\ UNCHANGED << graw, gyro_avg, gyro_idx >>
    /\ UNCHANGED << imuVars, araw, mraw, dret, entry, gyro_offset, gxyz,
                    motion, gyro_data, lastavg, pushed, ahrsVars, accel_avg,
                    accel_idx, mag_avg, mag_idx, axyz, mxyz, cycFrame >>

\* Line 439: gx_raw, gy_raw, gz_raw = self._read_gyro_raw(), or it raises.
CycGyroRaw ==
    /\ dpc = "cyc_gyro"
    /\ \/ /\ \E g \in CycGyro : graw' = g
          /\ dpc' = "cyc_accel"
       \/ /\ dpc' = "cyc_except"
          /\ UNCHANGED graw
    /\ UNCHANGED << imuVars, araw, mraw, dret, entry, gyro_offset,
                    filterVars, cycFrame >>

\* Line 440: ax_raw, ay_raw, az_raw = self._read_accel_raw(), or it raises.
CycAccelRaw ==
    /\ dpc = "cyc_accel"
    /\ \/ /\ \E a \in CycAccel : araw' = a
          /\ dpc' = "cyc_mag"
       \/ /\ dpc' = "cyc_except"
          /\ UNCHANGED araw
    /\ UNCHANGED << imuVars, graw, mraw, dret, entry, gyro_offset,
                    filterVars, cycFrame >>

\* Line 441: mx_raw, my_raw, mz_raw = self._read_mag_raw(), or it raises.
CycMagRaw ==
    /\ dpc = "cyc_mag"
    /\ \/ /\ \E m \in CycMag : mraw' = m
          /\ dpc' = "cyc_filter"
       \/ /\ dpc' = "cyc_except"
          /\ UNCHANGED mraw
    /\ UNCHANGED << imuVars, graw, araw, dret, entry, gyro_offset,
                    filterVars, cycFrame >>

\* Lines 444-493: the nine _calc_avg calls, the conversion of the rates,
\* _ahrs_update and the angles; math.asin raising lands in the handler of
\* lines 495-497 like every other exception.
CycFilter ==
    /\ dpc = "cyc_filter"
    /\ GyroPath(graw)
    /\ accel_avg' = CalcAvg3(accel_avg, accel_idx, araw).buf
    /\ accel_idx' = CalcAvg3(accel_avg, accel_idx, araw).idx
    /\ axyz' = CalcAvg3(accel_avg, accel_idx, araw).avg
    /\ mag_avg' = CalcAvg3(mag_avg, mag_idx, mraw).buf
    /\ mag_idx' = CalcAvg3(mag_avg, mag_idx, mraw).idx
    /\ mxyz' = CalcAvg3(mag_avg, mag_idx, mraw).avg
    /\ AhrsStep([i \in 1..3 |-> Fixed(motion'[i])], axyz', mxyz')
    /\ dret' = IF AsinDefined(SinPitch(quat'))
                 THEN Returned("read", "sample", graw, araw, mraw)
                 ELSE Returned("read", "error", << >>, << >>, << >>)
    /\ dpc' = "idle"
    /\ UNCHANGED << imuVars, rawVars, entry, gyro_offset, cycFrame >>

\* Lines 495-497: except Exception: print(...); return the defaults.
CycExcept ==
    /\ dpc = "cyc_except"
    /\ dpc' = "idle"
    /\ dret' = Returned("read", "error", << >>, << >>, << >>)
    /\ UNCHANGED << imuVars, rawVars, entry, gyro_offset, filterVars,
                    cycFrame >>

CycleNext ==
    \/ CycInitialize \/ CycClose \/ CycReadCall \/ CycGyroRaw
    \/ CycAccelRaw \/ CycMagRaw \/ CycFilter \/ CycExcept

CycleSpec == Init /\ [][CycleNext]_vars

(***************************************************************************)
(* Properties of the snapshot interface                                    *)
(***************************************************************************)

\* The positions of a consumer inside the `with self._lock` block of an
\* accessor.
CopyOutPcs == {"gd_angles", "gd_gyro", "gd_accel", "gd_mag", "ga_angles"}

\* C1: the fields get_data() loads all carry the tag of one sample cycle (or
\* are all the zero default): no reader sees fields of two different cycles,
\* however its loads interleave with the publishes of the running loops.
C1_SnapshotAtomic ==
    \A c \in Consumers :
        \A i, j \in DOMAIN kret[c] : kret[c][i] = kret[c][j]

\* A get_data() call has returned the tuple of a thread's second tag while a
\* loop is in the middle of publishing a tuple of another cycle.
C1_Witness ==
    \E c \in Consumers, t \in Threads :
        /\ kpc[c] = "idle"
        /\ Len(kret[c]) = 4
        /\ kret[c][1] = NextTag(t, NextTag(t, 0))
        /\ tpc[t] \in PublishPcs
        /\ tres[t] # kret[c][1]

\* C6: when get_data() returns, the tuple it returns is the one written by
\* the latest completed publish (all zero when none has completed), and when
\* get_angles() returns, its value is the angles field of that tuple.
C6_ReturnsLatestPublished ==
    [][\A c \in Consumers :
          /\ (kpc[c] = "gd_mag" /\ kpc'[c] = "idle")
                => kret'[c] = << published, published, published, published >>
          /\ (kpc[c] = "ga_angles" /\ kpc'[c] = "idle")
                => kret'[c] = << published >>]_vars

\* get_angles() has returned the angles of a completed, non-zero publish.
C6_Witness ==
    \E c \in Consumers :
        /\ kpc[c] = "idle"
        /\ Len(kret[c]) = 1
        /\ kret[c][1] # 0
        /\ kret[c][1] = published

\* C7: the snapshot lock is held only inside the copy-in block of the loop
\* and the copy-out block of an accessor: its holder is never inside a bus
\* transfer, the filter update or a sleep, so an accessor waiting for the
\* lock never waits for a bus transaction.
C7_LockOnlyAroundCopy ==
    /\ \A t \in Threads : lock = ThreadId(t) => tpc[t] \in PublishPcs
    /\ \A c \in Consumers : lock = ConsumerId(c) => kpc[c] \in CopyOutPcs
    /\ \A t \in Threads :
          tpc[t] \in IoPcs \cup {"r_enter", "r_filter", "r_except", "sleep"}
              => lock # ThreadId(t)

\* An accessor is about to take the snapshot lock, which is free, while a
\* loop is inside a bus transfer and holds the driver's own lock.
C7_Witness ==
    \E c \in Consumers, t \in Threads :
        /\ kpc[c] = "gd_acquire"
        /\ tpc[t] \in IoPcs
        /\ imu_lock = ThreadId(t)
        /\ lock = 0

(***************************************************************************)
(* Properties of the sampler's life cycle and error handling               *)
(***************************************************************************)

\* C2: a sample cycle that caught a bus I/O error is skipped: no step the
\* loop takes in the rest of that iteration changes the published snapshot,
\* so the snapshot published before the failed cycle remains published.
C2_FailedCycleKeepsSnapshot ==
    [][\A t \in Threads :
          (failed[t] /\ tpc'[t] # tpc[t])
              => (snapVars' = snapVars /\ published' = published)]_vars

\* C3: when a start() that follows a stop() returns true, the driver has
\* been initialized again and at most one background loop is alive: the loop
\* of the earlier start() has exited.
C3_RestartLeavesOneLoop ==
    [][(cpc = "st_thread" /\ cpc' = "idle" /\ lastOp = "stop")
          => (imu_initialized' /\ imu_bus'
              /\ Cardinality(AliveThreads') <= 1)]_vars

\* C4: stop() clears the running flag, joins the loop and only then closes
\* the transport: no loop is inside a sample cycle when close() is reached,
\* and once stop() has returned no loop is inside a bus transfer or inside
\* the publish block.
C4_StopOrder ==
    /\ cpc = "sp_close" => (~running /\ \A t \in Threads : tpc[t] \notin CyclePcs)
    /\ (cpc = "idle" /\ lastOp = "stop")
          => \A t \in Threads : tpc[t] \notin IoPcs \cup PublishPcs

\* C5: start() returns true only after a successful initialization and then
\* has begun exactly one background loop; a start() whose initialization
\* failed returns false, has created no loop and leaves `available` false.
C5_StartContract ==
    [][/\ (cpc # "idle" /\ cpc' = "idle" /\ lastOp' = "start_ok")
            => /\ imu_initialized
               /\ Cardinality(AliveThreads') = Cardinality(AliveThreads) + 1
       /\ (cpc # "idle" /\ cpc' = "idle" /\ lastOp' = "start_fail")
            => /\ AliveThreads' = AliveThreads
               /\ thread' = thread
               /\ ~available']_vars

\* C8: between calls of start() and stop(), `available` is true only if the
\* loop of the last start() is alive and the driver is initialized; it is
\* false before the first start(), after a start() that failed and after
\* stop().
C8_AvailableMeaning ==
    cpc = "idle" =>
        /\ available => (thread # 0 /\ Alive(thread) /\ imu_initialized)
        /\ lastOp \in {"none", "start_fail", "stop"} => ~available

\* C9: a loop that is alive when stop() has returned eventually exits; no
\* exception leaves _read_loop; and whatever fails on the bus, every sample
\* cycle that is begun runs to its end and, while the running flag is set,
\* the next iteration begins.
C9_LoopLiveness ==
    /\ \A t \in Threads :
          (cpc = "idle" /\ lastOp = "stop" /\ Alive(t)) ~> (tpc[t] = "done")
    /\ [](\A t \in Threads : tpc[t] # "crashed")
    /\ \A t \in Threads : (tpc[t] = "r_enter") ~> (tpc[t] = "sleep")
    /\ \A t \in Threads :
          (tpc[t] = "sleep" /\ running) ~> (tpc[t] = "r_enter" \/ ~running)

\* C10: the handler of a transport I/O error, in read() and in initialize(),
\* leaves the driver marked uninitialized, and a read() on the driver so
\* marked returns the default tuple without touching the bus.
C10_ErrorMarksUninitialized ==
    [][/\ \A t \in Threads :
            (tpc[t] = "r_except" /\ tpc'[t] # "r_except") => ~imu_initialized'
       /\ (cpc = "i_except" /\ cpc' # "i_except") => ~imu_initialized'
       /\ \A t \in Threads :
            (tpc[t] = "r_enter" /\ tpc'[t] # "r_enter" /\ ~imu_initialized)
                => (tpc'[t] = "pub_acquire" /\ tres'[t] = 0)]_vars

(***************************************************************************)
(* Properties of the driver                                                *)
(***************************************************************************)

\* C11: when read() returns from a sample cycle, whether with a sample or
\* after an I/O error, and when a secondary-bus read returns to read(), the
\* device has bank 0 selected.
C11_BankZeroOnReturn ==
    /\ (dpc = "idle" /\ dret.op = "read" /\ dret.kind \in {"sample", "error"})
           => bank = 0
    /\ dpc \in {"rm_polled", "rm_data"} => bank = 0

\* C12: whenever initialize() returns False (to start(), which then returns
\* False itself), the driver is uninitialized: initialized is False, whatever
\* state the driver was in when initialize() was called.
C12_FailedInitIsUninitialized ==
    cpc = "st_false" => ~imu_initialized

\* The positions of a secondary-bus read called for a status poll, and for
\* the six data bytes, of _read_mag_raw.
InPoll == dpc = "rm_poll" \/ (dpc \in RsPcs /\ sret = "rm_polled")
InFetch == dpc = "rm_fetch" \/ (dpc \in RsPcs /\ sret = "rm_data")

\* No poll of this _read_mag_raw has seen the data-ready bit.
NeverReady == \A i \in 1..Len(pollLog) : ~pollLog[i]

\* C13: the configuration write to the magnetometer is called exactly when
\* the magnetometer check read the bytes 0x48, 0x09, and an initialize() in
\* which nothing failed but the magnetometer check (wrong bytes, or an I/O
\* error inside its secondary-bus read) returns True with initialized set.
C13_MagAbsenceNotFatal ==
    /\ cfgCalled <=> (chk.res = "read" /\ chk.data = << 72, 9 >>)
    /\ (dpc = "idle" /\ dret.op = "initialize"
                     /\ fault \in {"none", "mag_check"})
           => (dret.kind = "true" /\ imu_initialized)

\* initialize() has returned True although the secondary-bus read of the
\* magnetometer check raised an I/O error.
C13_Witness ==
    /\ dpc = "idle" /\ dret.op = "initialize" /\ dret.kind = "true"
    /\ chk.res = "error" /\ fault = "mag_check" /\ ~cfgCalled
    /\ imu_initialized

\* C14: once the magnetometer check of initialize() has failed, every
\* _read_mag_raw returns (0, 0, 0) and every read() returns a zero
\* magnetometer triple.
C14_UndetectedMagReadsZero ==
    magDetected = "no" =>
        /\ dpc = "r_filter" => mraw = << 0, 0, 0 >>
        /\ (dpc = "idle" /\ dret.op = "read" /\ dret.kind = "sample")
               => dret.m = << 0, 0, 0 >>

Encoding(i) == rawdata[2 * i - 1] * 256 + rawdata[2 * i]

\* C18: each axis of a raw gyro or accel triple is the signed decode of its
\* 16-bit encoding x: x below 32768 decodes to x, x from 32768 on to
\* x - 65536; the result lies in -32768..32767 and taken modulo 65536 it
\* gives x back; the bytes 7F FF 00 01 80 00 decode to (32767, 1, -32768).
C18_SignedDecode ==
    rawsrc # "none" =>
        /\ \A i \in 1..3 :
              /\ Encoding(i) \in 0..65535
              /\ Encoding(i) < 32768 => rawdec[i] = Encoding(i)
              /\ Encoding(i) >= 32768 => rawdec[i] = Encoding(i) - 65536
              /\ rawdec[i] \in -32768..32767
              /\ rawdec[i] % 65536 = Encoding(i)
        /\ rawdata = << 127, 255, 0, 1, 128, 0 >>
               => rawdec = << 32767, 1, -32768 >>

\* _read_gyro_raw has decoded the bytes 7F FF 00 01 80 00.
C18_Witness ==
    /\ rawsrc = "gyro"
    /\ rawdata = << 127, 255, 0, 1, 128, 0 >>
    /\ rawdec = << 32767, 1, -32768 >>

\* C16: _calibrate_gyro takes 32 raw triples and stores, per axis, their sum
\* shifted right by 5, which is the sum divided by 32 rounded down; when the
\* 32 triples are all the same triple s, the stored offset is s on every
\* axis, negative components included.
C16_CalibrationOffset ==
    cstage = "done" =>
        /\ cpass = 32
        /\ \A i \in 1..3 :
              /\ 32 * gyro_offset[i] <= csums[i]
              /\ csums[i] < 32 * gyro_offset[i] + 32
        /\ \A s \in CalTriples :
              cseen = {s} => (gyro_offset = s /\ csums = << 32 * s[1],
                                                           32 * s[2],
                                                           32 * s[3] >>)

\* A calibration over 32 identical triples with negative components is
\* done.
C16_Witness ==
    /\ cstage = "done"
    /\ cseen = {<< -32768, -1, 32767 >>}
    /\ gyro_offset = << -32768, -1, 32767 >>

\* The sum of axis i over the raw triples pushed last (at most 8).
RECURSIVE PushedSum(_, _)
PushedSum(seq, i) ==
    IF seq = << >> THEN 0 ELSE Head(seq)[i] + PushedSum(Tail(seq), i)

\* C17: after every push the index of each ring is in 0..7, the ring holds
\* the values pushed last (slots never written hold 0), and the value
\* returned is the sum of these at most 8 values divided by 8, rounded down;
\* so when the last 8 pushes were all the same triple v, the value returned
\* is v exactly.
C17_RingAverage ==
    /\ \A i \in 1..3 : gyro_idx[i] \in 0..7
    /\ pushed # << >> =>
          \A i \in 1..3 :
             /\ \A k \in 1..Len(pushed) :
                   gyro_avg[i][((gyro_idx[i] + 8 - k) % 8) + 1]
                       = pushed[Len(pushed) + 1 - k][i]
             /\ Sum(gyro_avg[i]) = PushedSum(pushed, i)
             /\ 8 * lastavg[i] <= PushedSum(pushed, i)
             /\ PushedSum(pushed, i) < 8 * lastavg[i] + 8
             /\ (Len(pushed) = 8 /\ \A k \in 1..8 : pushed[k] = pushed[1])
                    => lastavg[i] = pushed[1][i]

\* The eighth push of the same triple, with negative components, has
\* returned that triple.
C17_Witness ==
    /\ Len(pushed) = 8
    /\ \A k \in 1..8 : pushed[k] = << -32768, -1, 32767 >>
    /\ lastavg = << -32768, -1, 32767 >>

\* C19: in every successful cycle the gyro value returned and the angular
\* rate handed to the AHRS update are both converted from the averaged
\* count minus the calibration offset: (avg - offset) / 32.8, and that
\* times 0.0175.
C19_OffsetBeforeConversion ==
    pushed # << >> =>
        \A i \in 1..3 :
           /\ gxyz[i] = lastavg[i] - gyro_offset[i]
           /\ gyro_data[i] = [n |-> 5 * (lastavg[i] - gyro_offset[i]),
                              d |-> 164]
           /\ motion[i] = [n |-> 7 * (lastavg[i] - gyro_offset[i]),
                           d |-> 13120]

\* A cycle has run with a non-zero offset on every axis.
C19_Witness ==
    /\ pushed # << >>
    /\ gyro_offset = << -7, 12, 3 >>
    /\ \A i \in 1..3 : gxyz[i] # lastavg[i] /\ gyro_data[i].n # 5 * lastavg[i]

\* The squared norm of a quaternion, at the scale ONE * ONE.
NormSq(q) == q[1] * q[1] + q[2] * q[2] + q[3] * q[3] + q[4] * q[4]

C21_SelectBankOneWrite ==
    [][(dpc = "sb_write" /\ dpc' = "sb_done") =>
           /\ sel \in 0..3
           /\ nx = 0 /\ nx' = 1
           /\ xfer'.op = "write" /\ xfer'.reg = 127
           /\ xfer'.val = sel * 16
           /\ xfer'.val \in {0, 16, 32, 48}
           /\ bank' = sel
           /\ UNCHANGED << user_ctrl, slv0_ctrl, slv1_ctrl, slv0_reg, ext >>
      ]_vars

\* _select_bank(2) has written the byte 0x20 to register 0x7F while the
\* slave-0 channel was armed, and another bank was selected before.
C21_Witness ==
    /\ dpc = "sb_done" /\ sel = 2
    /\ xfer = Transfer("write", 0, xfer.bank, 127, 32)
    /\ xfer.bank # 2 /\ bank = 2 /\ nx = 1
    /\ slv0_ctrl # 0

\* What a transfer did, without the banks: operation, register, byte.
Did(e) == << e.op, e.reg, e.val >>

\* The first ten transfers of an initialize() that gets that far: the
\* who-am-I read returning 0xEA, bank 0, reset bit, run-mode bit, bank 2,
\* the four configuration bytes, bank 0.
InitHead ==
    << << "read", 0, 234 >>, << "write", 127, 0 >>, << "write", 6, 128 >>,
       << "write", 6, 1 >>, << "write", 127, 32 >>, << "write", 0, 7 >>,
       << "write", 1, 53 >>, << "write", 17, 7 >>, << "write", 20, 49 >>,
       << "write", 127, 0 >> >>

\* The number of transfers up to the end of the calibration (32 passes of
\* bank select and block read), up to the end of a completed magnetometer
\* check (a secondary-bus read of 2 bytes: 14 transfers) and up to the end
\* of the magnetometer configuration (a secondary-bus write: 13 transfers).
CalEnd == Len(InitHead) + 2 * CalSamples
CheckEnd == CalEnd + 14
ConfigEnd == CheckEnd + 13

\* The transfers of this initialize() so far are in the order of the
\* initialization state machine.
InitOrdered ==
    /\ Len(ilog) <= ConfigEnd
    /\ Len(ilog) >= 1 => ilog[1].op = "read" /\ ilog[1].reg = 0
    /\ \A i \in 1..Len(ilog) :
          /\ (i <= Len(InitHead) /\ (i > 1 \/ Len(ilog) > 1))
                 => Did(ilog[i]) = InitHead[i]
          /\ i \in {3, 4} => ilog[i].bank = 0
          /\ i \in 6..9 => ilog[i].bank = 2
          /\ (i > Len(InitHead) /\ i <= CalEnd)
                 => Did(ilog[i]) = IF i % 2 = 1 THEN << "write", 127, 0 >>
                                   ELSE << "block", 51, 0 >>
          /\ i = CalEnd + 1 => Did(ilog[i]) = << "write", 127, 48 >>
          /\ i = CalEnd + 2 => Did(ilog[i]) = << "write", 3, 140 >>
                               /\ ilog[i].bank = 3
          /\ i = CalEnd + 3 => Did(ilog[i]) = << "write", 4, 0 >>
          /\ (i > CalEnd /\ i <= CheckEnd /\ ilog[i].bank = 3)
                 => ilog[i].reg \in {127, 3, 4, 5}
          /\ i = CheckEnd + 1 => Did(ilog[i]) = << "write", 127, 48 >>
          /\ i = CheckEnd + 2 => Did(ilog[i]) = << "write", 7, 12 >>
                                 /\ ilog[i].bank = 3
          /\ i = CheckEnd + 3 => Did(ilog[i]) = << "write", 8, 49 >>
          /\ i = CheckEnd + 4 => Did(ilog[i]) = << "write", 10, 4 >>
          /\ i = CheckEnd + 5 => Did(ilog[i]) = << "write", 9, 129 >>

\* C22: the bus transfers of every initialize() come in the order of the
\* initialization state machine: first the who-am-I read, and no write
\* unless it returned 0xEA; then bank 0, the reset bit, the run-mode bit;
\* bank 2 and the four configuration bytes, all written with bank 2
\* selected; bank 0; the 32 calibration reads; the magnetometer check; the
\* magnetometer configuration.  initialized is set only by an initialize()
\* that has opened the bus and got past the calibration, with the
\* magnetometer check either completed or ended by an I/O error, and with
\* the configuration completed if the check found the magnetometer.
C22_InitOrder ==
    [][/\ InitOrdered'
       /\ (imu_initialized' /\ ~imu_initialized) =>
              /\ imu_bus
              /\ Len(ilog) >= CalEnd
              /\ chk.res = "read" => Len(ilog) >= CheckEnd
              /\ chk.res = "error" => Len(ilog) < CheckEnd
              /\ cfgCalled <=> Len(ilog) = ConfigEnd
              /\ cfgCalled <=> (chk.res = "read" /\ chk.data = << 72, 9 >>)
              /\ dret'.op = "initialize" /\ dret'.kind = "true"
      ]_vars

\* An initialize() has run through every stage, the magnetometer
\* configuration included, and has returned True.
C22_Witness ==
    /\ dpc = "idle" /\ dret.op = "initialize" /\ dret.kind = "true"
    /\ imu_initialized /\ cfgCalled
    /\ Len(ilog) = ConfigEnd
    /\ Did(ilog[Len(ilog)]) = << "write", 127, 0 >>

\* _read_secondary has returned to its caller and the caller has not gone
\* on yet.
ReadSecondaryReturned == dpc \in {"i_mag_checked", "rm_polled", "rm_data"}

\* The transfers of a _read_secondary that returned, up to the write that
\* is to clear the slave-0 enable bit, and the bank select after it: bank
\* 3; peer address, register and enable | length to the slave-0 registers;
\* bank 0; read of the user-control register, write with the
\* master-enable bit set, write with it cleared and the other bits as read;
\* `length` reads from 0x3B on in bank 0; bank 3; read of the slave-0
\* control register; a write to it; bank 0.
SecondaryReadSteps ==
    /\ Len(slog) = 12 + slen
    /\ Did(slog[1]) = << "write", 127, 48 >>
    /\ Did(slog[2]) = << "write", 3, 140 >> /\ slog[2].bank = 3
    /\ Did(slog[3]) = << "write", 4, sreg >> /\ slog[3].bank = 3
    /\ Did(slog[4]) = << "write", 5, 128 + slen >> /\ slog[4].bank = 3
    /\ Did(slog[5]) = << "write", 127, 0 >>
    /\ slog[6].op = "read" /\ slog[6].reg = 3 /\ slog[6].bank = 0
    /\ Did(slog[7]) = << "write", 3, BitOr(slog[6].val, 32) >>
    /\ slog[7].bank = 0
    /\ Did(slog[8]) = << "write", 3, BitAndNot(slog[6].val, 32) >>
    /\ slog[8].bank = 0
    /\ \A k \in 1..slen :
          /\ slog[8 + k].op = "read" /\ slog[8 + k].reg = 59 + k - 1
          /\ slog[8 + k].bank = 0
          /\ slog[8 + k].val = sdata[k]
    /\ Did(slog[9 + slen]) = << "write", 127, 48 >>
    /\ slog[10 + slen].op = "read" /\ slog[10 + slen].reg = 5
    /\ slog[10 + slen].bank = 3
    /\ slog[11 + slen].op = "write" /\ slog[11 + slen].reg = 5
    /\ slog[11 + slen].bank = 3
    /\ Did(slog[12 + slen]) = << "write", 127, 0 >>

\* C23: a secondary-bus read that returns has made its transfers in the
\* stated order, the write after the second bank-3 select clears the
\* slave-0 enable bit (0x80) of the value read just before and leaves its
\* other bits, and the master-enable bit of the user-control register is
\* clear when the routine returns.
C23_SecondaryReadOrder ==
    ReadSecondaryReturned =>
        /\ SecondaryReadSteps
        /\ slog[11 + slen].val = BitAndNot(slog[10 + slen].val, 128)
        /\ BitAnd(user_ctrl, 32) = 0

\* _write_secondary has returned to its caller and the caller has not gone
\* on yet.
WriteSecondaryReturned == dpc = "i_ready" /\ cfgCalled

\* C24: when _read_secondary has returned, the enable bit (0x80) of the
\* slave-0 control register is 0, and when _write_secondary has returned,
\* the enable bit of the slave-1 control register is 0.
C24_SlaveDisabledAfterTransaction ==
    /\ ReadSecondaryReturned => BitAnd(slv0_ctrl, 128) = 0
    /\ WriteSecondaryReturned => BitAnd(slv1_ctrl, 128) = 0

\* C27: every transfer to or from a register other than the bank-select
\* register 0x7F is made while the device has the user bank of that
\* register selected.
C27_AccessInHomeBank ==
    (xfer.op # "none" /\ xfer.reg # 127) => xfer.bank = xfer.home

\* _read_mag_raw has fetched six data bytes and returned its triple.
MagDecoded == dpc = "r_filter" /\ Len(sdata) = 6

\* The signed value of the two bytes of axis i of the fetched data, first
\* byte high.
BigEndian(i) ==
    LET x == sdata[2 * i - 1] * 256 + sdata[2 * i]
    IN  IF x >= 32768 THEN x - 65536 ELSE x

\* C26: the magnetometer triple is, like the gyro and accel triples (C18),
\* decoded from two bytes per axis with the first byte read as the high
\* byte (x as decoded, y and z with the sign changed), and every component
\* of every raw triple of a read() cycle lies in -32768..32767.
C26_BigEndianInt16 ==
    /\ MagDecoded =>
          /\ mraw[1] = BigEndian(1)
          /\ mraw[2] = - BigEndian(2)
          /\ mraw[3] = - BigEndian(3)
    /\ dpc = "r_filter" =>
          \A i \in 1..3 : /\ graw[i] \in -32768..32767
                          /\ araw[i] \in -32768..32767
                          /\ mraw[i] \in -32768..32767

\* C30: the handles the driver has opened and not closed are at most one,
\* and it is the one self.bus refers to: there is one exactly when self.bus
\* is set, in every state (during and after a failed initialize(), after a
\* repeated initialize()), and none when close() has returned.
C30_OneHandleOwned ==
    /\ handles <= 1
    /\ handles = (IF imu_bus THEN 1 ELSE 0)
    /\ (dpc = "idle" /\ dret.op = "close") => handles = 0

(***************************************************************************)
(* Properties of the sampler's use of the driver                           *)
(***************************************************************************)

\* C29: at most one background loop is alive, and while start() is inside
\* the bus I/O of initialize() (who-am-I check, configuration) no
\* background loop is between the start and the end of the raw reads of a
\* sample cycle.
C29_OneLoopNoInitRace ==
    /\ Cardinality(AliveThreads) <= 1
    /\ cpc \in {"i_check", "i_config"} => \A t \in Threads : tpc[t] \notin IoPcs

(***************************************************************************)
(* Properties of the filter state across calls                             *)
(***************************************************************************)

\* C25: the quaternion is (1,0,0,0) until the first AHRS update; it changes
\* only in the step of read() that runs _ahrs_update, which runs it once;
\* every read() that returns a sample has run exactly that one update;
\* initialize(), close(), a read() on an uninitialized driver and a read()
\* that ends in the exception handler after a failed raw read leave the
\* quaternion as it was when the call began.
C25_QuaternionFrame ==
    [][ /\ (updates = 0 => quat = << ONE, 0, 0, 0 >>)
        /\ (quat' # quat \/ updates' # updates)
              => (dpc = "cyc_filter" /\ updates' = updates + 1)
        /\ (dret' # dret /\ dret'.op = "read" /\ dret'.kind = "sample")
              => (dpc = "cyc_filter" /\ updates' = updates + 1)
        /\ (dret' # dret /\ dret'.op \in {"initialize", "close"})
              => quat' = quat
        /\ (dret' # dret /\ dret'.op = "read"
              /\ dret'.kind = "uninitialized") => quat' = quat
        /\ (dpc = "cyc_except" /\ dpc' = "idle")
              => (quat' = quat /\ quat' = entry[8]) ]_vars

\* close() has returned after an update that moved the quaternion, and the
\* quaternion is still the moved one.
C25_Witness ==
    /\ dret.op = "close"
    /\ ~imu_initialized
    /\ updates >= 1
    /\ quat # << ONE, 0, 0, 0 >>

\* The three axis indices of each sensor are equal.
IndicesEqual ==
    /\ \A i \in 1..3 : gyro_idx[i] = gyro_idx[1]
    /\ \A i \in 1..3 : accel_idx[i] = accel_idx[1]
    /\ \A i \in 1..3 : mag_idx[i] = mag_idx[1]

\* The rings and indices after differ from those before by exactly the one
\* value v[i] stored in the slot the index of axis i named, and that index
\* advanced by one modulo 8.
OnePush(before_buf, before_idx, after_buf, after_idx, v) ==
    \A i \in 1..3 :
       /\ after_idx[i] = (before_idx[i] + 1) % 8
       /\ after_buf[i] = [before_buf[i] EXCEPT ![before_idx[i] + 1] = v[i]]

\* C28: a read() cycle that reaches the exception handler because a raw
\* read failed returns with the nine rings, their indices, the gyro offset
\* and the quaternion as they were when the cycle began; no step of a cycle
\* before the filter step changes them; the filter step pushes exactly one
\* value into each of the nine rings; the three axis indices of a sensor
\* are equal in every state.
C28_FailedCycleKeepsFilterState ==
    [][ /\ IndicesEqual /\ IndicesEqual'
        /\ (dpc \in {"cyc_gyro", "cyc_accel", "cyc_mag", "cyc_except"})
              => (FilterState' = FilterState /\ FilterState' = entry)
        /\ (dpc = "cyc_filter")
              => /\ OnePush(gyro_avg, gyro_idx, gyro_avg', gyro_idx', graw)
                 /\ OnePush(accel_avg, accel_idx, accel_avg', accel_idx',
                            araw)
                 /\ OnePush(mag_avg, mag_idx, mag_avg', mag_idx', mraw) ]_vars

\* A cycle has failed after a successful one: read() returned the defaults
\* and the filter state is the one the failed cycle began with.
C28_Witness ==
    /\ dpc = "idle"
    /\ dret.op = "read" /\ dret.kind = "error"
    /\ updates = 1
    /\ accel_idx = << 1, 1, 1 >>
    /\ entry = FilterState

====
